---- MODULE Spec2Model ----
(***************************************************************************)
(* A model of the shard crate of sapphire.rs: the manifest model, the      *)
(* package processor (process_packages / execute_operations), the          *)
(* single-shard and apply-all reconciliation passes, the diff, the         *)
(* add/remove package commands, the shard lifecycle manager, and the brew   *)
(* client with its input validation.                                       *)
(***************************************************************************)
EXTENDS Integers, Sequences, FiniteSets, TLC

VARIABLES
    cin,        \* classification: the input of process_packages
    cout,       \* classification: its PackageProcessResult, or NoResult
    active,     \* ~/.sapphire/shards: shard name -> file content, or NoFile
    inv,        \* what brew has installed: formulae, casks, taps, deps
    pc,         \* the stage the running pass is at
    loc,        \* the running pass's parameters and local variables
    log,        \* the brew calls and manifest loads made so far, in order
    faults,     \* external failures so far
    disabled,   \* ~/.sapphire/shards/disabled: shard name -> file content
    backups,    \* ~/.sapphire/backups: the copies written, by shard name
    user,       \* $USER
    lastCmd     \* the last command run: its arguments, answers and result

classifyVars == <<cin, cout>>
brewVars == <<inv, pc, loc, log, faults>>
passVars == <<active, inv, pc, loc, log, faults>>
lifeVars == <<disabled, backups, user, lastCmd>>
vars == <<cin, cout, active, inv, pc, loc, log, faults, disabled, backups, user, lastCmd>>

----------------------------------------------------------------------------
(* Bounds *)

\* longest declaration list handed to process_packages on its own
MaxPkgs == 2

\* external failures (a brew command exiting non-zero) in one behaviour
MaxFaults == 1

\* shard commands run one after the other in one behaviour
MaxOps == 2

----------------------------------------------------------------------------
(* Generic helpers *)

SeqsUpTo(S, n) == UNION {[1..k -> S] : k \in 0..n}

Range(s) == {s[i] : i \in 1..Len(s)}

Contains(s, x) == \E i \in 1..Len(s) : s[i] = x

Reverse(s) == [i \in 1..Len(s) |-> s[Len(s) + 1 - i]]

\* s.iter().map(|p| p.name)
Names(s) == [i \in 1..Len(s) |-> s[i].name]

----------------------------------------------------------------------------
(* core/manifest.rs: the data model *)

PackageState == {"present", "absent", "latest"}

NoOptions == <<>>

OptionLists == {NoOptions, <<"--HEAD">>}

\* default_state()
default_state == "present"

----------------------------------------------------------------------------
(* package/processor.rs: PackageProcessor *)

\* PackageProcessor::is_installed
is_installed(installed, name) == name \in installed

\* The match of process_packages, for one package: the bucket its name is
\* pushed to, or "none".
CategorizeAbsentInstalls(p, installed) ==
    LET has_options == p.options # NoOptions
        inst == is_installed(installed, p.name)
    IN  IF p.state = "absent" /\ inst THEN "to_uninstall"
        ELSE IF p.state = "latest" /\ has_options THEN "with_options"
        ELSE IF p.state = "latest" /\ inst THEN "to_upgrade"
        ELSE IF p.state = "present" /\ has_options
             THEN (IF ~inst THEN "with_options" ELSE "none")
        ELSE IF ~inst THEN "to_install"
        ELSE "none"

CategorizeOptionsIgnored(p, installed) ==
    LET inst == is_installed(installed, p.name)
    IN  IF p.state = "absent" THEN (IF inst THEN "to_uninstall" ELSE "none")
        ELSE IF p.state = "latest" /\ inst THEN "to_upgrade"
        ELSE IF ~inst THEN "to_install"
        ELSE "none"

CategorizePresentUpgrades(p, installed) ==
    LET has_options == p.options # NoOptions
        inst == is_installed(installed, p.name)
    IN  IF p.state = "absent" THEN (IF inst THEN "to_uninstall" ELSE "none")
        ELSE IF has_options
             THEN (IF p.state = "latest" \/ ~inst THEN "with_options" ELSE "none")
        ELSE IF inst THEN "to_upgrade"
        ELSE "to_install"

Categorize(p, installed) ==
    LET has_options == p.options # NoOptions
        inst == is_installed(installed, p.name)
    IN  IF p.state = "absent" THEN (IF inst THEN "to_uninstall" ELSE "none")
        ELSE IF p.state = "latest" /\ has_options THEN "with_options"
        ELSE IF p.state = "latest" /\ inst THEN "to_upgrade"
        ELSE IF p.state = "present" /\ has_options
             THEN (IF ~inst THEN "with_options" ELSE "none")
        ELSE IF ~inst THEN "to_install"
        ELSE "none"

\* The packages of one bucket, in the order of the input.
Bucket(pkgs, installed, b) ==
    SelectSeq(pkgs, LAMBDA p : Categorize(p, installed) = b)

\* PackageProcessor::process_packages: one pass over the packages, each
\* pushed to at most one of the four lists.
process_packages(pkgs, installed) ==
    [ to_install   |-> Names(Bucket(pkgs, installed, "to_install")),
      to_upgrade   |-> Names(Bucket(pkgs, installed, "to_upgrade")),
      with_options |-> LET s == Bucket(pkgs, installed, "with_options")
                       IN  [i \in 1..Len(s) |->
                              [name |-> s[i].name, options |-> s[i].options]],
      to_uninstall |-> Names(Bucket(pkgs, installed, "to_uninstall")) ]

----------------------------------------------------------------------------
(* core/manifest.rs: shard files and Manifest::from_file *)

FormulaNames == {"git", "wget", "jq"}

CaskNames == {"firefox"}

TapNames == {"t/one"}

ShardNames == {"a", "b"}

\* read_dir order after sort_by(file_name)
ShardOrder == <<"a", "b">>

\* the order brew lists names in, and Vec::sort's order
NameOrder == <<"firefox", "git", "jq", "t/one", "wget", "wget:1.2">>

Sorted(S) == SelectSeq(NameOrder, LAMBDA n : n \in S)

\* str::split_once(':') on a simplified entry "name" or "name:version"
HasColon(s) == s \in {"wget:1.2"}

split_name(s) == IF s = "wget:1.2" THEN "wget" ELSE s

split_version(s) == IF s = "wget:1.2" THEN "1.2" ELSE "latest"

NoFile == [exists |-> FALSE, parses |-> FALSE]

\* a file toml::from_str rejects
Unparsable == [exists |-> TRUE, parses |-> FALSE]

Meta(p, au, pl) == [protected |-> p, allowed_users |-> au, protection_level |-> pl]

PlainMeta == Meta(FALSE, <<>>, 0)

\* one table of a [[formulas]] / [[casks]] array, as written in the file
Entry(n, v, o, st) == [name |-> n, version |-> v, options |-> o, state |-> st]

File(meta, taps, formulas, casks, formulae, brews) ==
    [ exists |-> TRUE, parses |-> TRUE, metadata |-> meta, taps |-> taps,
      formulas |-> formulas, casks |-> casks,
      formulae |-> formulae, brews |-> brews ]

\* Manifest::new
NewManifest ==
    [ metadata |-> PlainMeta, taps |-> <<>>, formulas |-> <<>>, casks |-> <<>>,
      formulae |-> <<>>, brews |-> <<>> ]

StructuredWithState(es) ==
    [i \in 1..Len(es) |->
        [ name |-> es[i].name, version |-> es[i].version,
          options |-> es[i].options, state |-> es[i].state ]]

\* from_file, the structured arrays: name, version and options are read,
\* the state is set to default_state() whatever the table says.
Structured(es) ==
    [i \in 1..Len(es) |->
        [ name |-> es[i].name, version |-> es[i].version,
          options |-> es[i].options, state |-> default_state ]]

\* from_file, the simplified lists: each string is also pushed to the
\* structured list, split at ':'.
Simplified(ss) ==
    [i \in 1..Len(ss) |->
        [ name |-> split_name(ss[i]), version |-> split_version(ss[i]),
          options |-> NoOptions, state |-> default_state ]]

\* Manifest::from_file of a file that parses
from_file(f) ==
    [ metadata |-> f.metadata,
      taps     |-> [i \in 1..Len(f.taps) |-> [name |-> f.taps[i]]],
      formulas |-> Structured(f.formulas) \o Simplified(f.formulae),
      casks    |-> Structured(f.casks) \o Simplified(f.brews),
      formulae |-> f.formulae,
      brews    |-> f.brews ]

----------------------------------------------------------------------------
(* brew/client.rs and package/processor.rs: the calls a pass makes *)

MutatingOps ==
    { "add_tap", "batch_install", "batch_upgrade", "install_with_options",
      "upgrade_with_options", "uninstall_package", "run_cleanup" }

QueryOps ==
    { "get_installed_formulae", "get_installed_casks", "get_installed_taps",
      "get_dependency_packages" }

PackageOps == MutatingOps \ {"add_tap", "run_cleanup"}

\* a call about to be made; res is filled in when it has returned
Call(stage, op, kind, args, opts) ==
    [stage |-> stage, op |-> op, kind |-> kind, args |-> args, opts |-> opts, res |-> "-"]

Query(stage, op) == Call(stage, op, "-", <<>>, NoOptions)

\* brew/validate.rs PACKAGE_NAME_REGEX: no ':' in a package name
valid_package_name(n) == ~HasColon(n)

\* why a call returns Err before brew is started, "" if it does not:
\* BrewClient validates every package name; from_file fails on a file that
\* cannot be read or does not parse.
Rejection(c, dir) ==
    IF c.op \in PackageOps /\ \E n \in Range(c.args) : ~valid_package_name(n)
    THEN "invalid"
    ELSE IF c.op = "from_file" /\ ~dir[c.args[1]].parses THEN "load_error"
    ELSE ""

FirstRejected(calls, dir) ==
    IF \E i \in 1..Len(calls) : Rejection(calls[i], dir) # ""
    THEN CHOOSE i \in 1..Len(calls) :
            /\ Rejection(calls[i], dir) # ""
            /\ \A j \in 1..(i - 1) : Rejection(calls[j], dir) = ""
    ELSE 0

\* the calls brew itself may fail at: those before the first rejected one,
\* from_file reads no brew state and is not among them
FaultPoints(calls, dir) ==
    LET j == FirstRejected(calls, dir)
        last == IF j = 0 THEN Len(calls) ELSE j - 1
    IN  {0} \cup {k \in 1..last : calls[k].op # "from_file"}

\* The calls of a `?`-chained sequence that are made when brew fails at
\* call k (0: brew never fails): every call up to the first Err.
Ran(calls, k, dir) ==
    LET j == FirstRejected(calls, dir)
        stop == IF k > 0 THEN k ELSE j
        n == IF stop = 0 THEN Len(calls) ELSE stop
    IN  [ events  |-> [i \in 1..n |->
                        [calls[i] EXCEPT !.res =
                            IF i # stop THEN "ok"
                            ELSE IF k > 0 THEN "fail"
                            ELSE Rejection(calls[i], dir)]],
          aborted |-> stop # 0 ]

\* the formulae brew installs along with a formula, as dependencies
Requires(n) == IF n = "wget" THEN {"jq"} ELSE {}

\* what a call that succeeded changes in brew's state; an uninstall of a
\* package that is not installed is reported Ok and changes nothing
Effect(i, e) ==
    IF e.res # "ok" THEN i
    ELSE IF e.op = "add_tap" THEN [i EXCEPT !.taps = @ \cup Range(e.args)]
    ELSE IF e.op \in {"batch_install", "install_with_options"}
         THEN IF e.kind = "formula"
              THEN LET pulled == (UNION {Requires(n) : n \in Range(e.args)})
                                 \ (i.formulae \cup Range(e.args))
                   IN  [i EXCEPT !.formulae = @ \cup Range(e.args) \cup pulled,
                                 !.deps = @ \cup pulled]
              ELSE [i EXCEPT !.casks = @ \cup Range(e.args)]
    ELSE IF e.op = "uninstall_package"
         THEN IF e.kind = "formula"
              THEN [i EXCEPT !.formulae = @ \ Range(e.args), !.deps = @ \ Range(e.args)]
              ELSE [i EXCEPT !.casks = @ \ Range(e.args)]
    ELSE i

RECURSIVE Effects(_, _)
Effects(i, events) ==
    IF events = <<>> THEN i ELSE Effects(Effect(i, Head(events)), Tail(events))

get_installed(kind) ==
    IF kind = "formula" THEN "get_installed_formulae" ELSE "get_installed_casks"

\* PackageProcessor::execute_operations: the calls it makes for a result
execute_operations(result, dry_run, kind, installed, stage) ==
    LET wo == result.with_options
        un == result.to_uninstall
    IN  (IF result.to_install # <<>> /\ ~dry_run
         THEN <<Call(stage, "batch_install", kind, result.to_install, NoOptions)>>
         ELSE <<>>)
        \o
        (IF result.to_upgrade # <<>> /\ ~dry_run
         THEN <<Call(stage, "batch_upgrade", kind, result.to_upgrade, NoOptions)>>
         ELSE <<>>)
        \o
        (IF ~dry_run
         THEN [i \in 1..Len(wo) |->
                Call(stage,
                     IF is_installed(installed, wo[i].name)
                     THEN "upgrade_with_options" ELSE "install_with_options",
                     kind, <<wo[i].name>>, wo[i].options)]
         ELSE <<>>)
        \o
        (IF ~dry_run
         THEN [i \in 1..Len(un) |->
                Call(stage, "uninstall_package", kind, <<un[i]>>, NoOptions)]
         ELSE <<>>)

----------------------------------------------------------------------------
(* shard/apply.rs: what each stage of a pass calls *)

\* process_taps
process_taps(manifest, dry_run, installed_taps) ==
    IF manifest.taps = <<>> \/ dry_run THEN <<>>
    ELSE <<Query("taps", "get_installed_taps")>>
         \o LET to_add == SelectSeq(Names(manifest.taps),
                                    LAMBDA t : t \notin installed_taps)
            IN  [i \in 1..Len(to_add) |->
                    Call("taps", "add_tap", "tap", <<to_add[i]>>, NoOptions)]

\* the tap stage of apply_all_enabled_shards_internal
process_all_taps(desired_taps, dry_run, installed_taps) ==
    IF desired_taps = <<>> \/ dry_run THEN <<>>
    ELSE <<Query("taps", "get_installed_taps")>>
         \o LET to_add == SelectSeq(desired_taps, LAMBDA t : t \notin installed_taps)
            IN  [i \in 1..Len(to_add) |->
                    Call("taps", "add_tap", "tap", <<to_add[i]>>, NoOptions)]

\* formula_info / cask_info of process_formulas / process_casks: the
\* structured entries that are not Absent, then the simplified strings not
\* already there by name, as Latest without options.
RECURSIVE add_simplified(_, _)
add_simplified(info, simple) ==
    IF simple = <<>> THEN info
    ELSE add_simplified(
            IF Contains(Names(info), Head(simple)) THEN info
            ELSE Append(info, [name |-> Head(simple), state |-> "latest",
                               options |-> NoOptions]),
            Tail(simple))

package_info(structured, simple) ==
    LET kept == SelectSeq(structured, LAMBDA f : f.state # "absent")
    IN  add_simplified(
            [i \in 1..Len(kept) |->
                [name |-> kept[i].name, state |-> kept[i].state,
                 options |-> kept[i].options]],
            simple)

\* The body shared by process_formulas and process_casks (is_system_manifest
\* is false on every path): nothing for an empty section, else the inventory
\* query, the classified operations and the uninstalls of Absent entries
\* that the queried list holds.
process_section(structured, simple, dry_run, kind, installed, stage) ==
    LET info == package_info(structured, simple)
        absent == Names(SelectSeq(structured, LAMBDA f : f.state = "absent"))
        gone == SelectSeq(absent, LAMBDA n : n \in installed)
        uninstalls ==
            IF dry_run THEN <<>>
            ELSE [i \in 1..Len(gone) |->
                    Call(stage, "uninstall_package", kind, <<gone[i]>>, NoOptions)]
    IN  IF structured = <<>> /\ simple = <<>> THEN <<>>
        ELSE IF info = <<>> /\ absent = <<>> THEN <<>>
        ELSE <<Query(stage, get_installed(kind))>>
             \o (IF info = <<>> THEN <<>>
                 ELSE execute_operations(process_packages(info, installed),
                                         dry_run, kind, installed, stage))
             \o uninstalls

process_formulas_taps_late(manifest, dry_run, installed) ==
    process_section(manifest.formulas, manifest.formulae, dry_run,
                    "formula", installed, "formulas")
    \o (IF dry_run THEN <<>>
        ELSE [i \in 1..Len(manifest.taps) |->
                Call("taps", "add_tap", "tap", <<manifest.taps[i].name>>, NoOptions)])

process_formulas(manifest, dry_run, installed) ==
    process_section(manifest.formulas, manifest.formulae, dry_run,
                    "formula", installed, "formulas")

process_casks_not_additive(manifest, dry_run, installed) ==
    LET undeclared == SelectSeq(Sorted(installed),
                        LAMBDA n : ~Contains(Names(manifest.casks), n))
    IN  process_section(manifest.casks, manifest.brews, dry_run,
                        "cask", installed, "casks")
        \o [i \in 1..Len(undeclared) |->
                Call("casks", "uninstall_package", "cask", <<undeclared[i]>>, NoOptions)]

process_casks(manifest, dry_run, installed) ==
    process_section(manifest.casks, manifest.brews, dry_run,
                    "cask", installed, "casks")

\* handle_cleanup
handle_cleanup(skip_cleanup, dry_run) ==
    IF ~skip_cleanup /\ ~dry_run
    THEN <<Call("cleanup", "run_cleanup", "-", <<>>, NoOptions)>>
    ELSE <<>>

\* deduplicate_packages: the first entry of a name stays; a later Latest
\* entry raises a non-Latest one, and only then may replace its options.
deduplicate_step(result, p) ==
    IF ~Contains(Names(result), p.name) THEN Append(result, p)
    ELSE LET idx == CHOOSE i \in 1..Len(result) : result[i].name = p.name
         IN  IF p.state = "latest" /\ result[idx].state # "latest"
             THEN [result EXCEPT
                     ![idx].state = "latest",
                     ![idx].options = IF p.options # NoOptions THEN p.options ELSE @]
             ELSE result

RECURSIVE deduplicate_from(_, _)
deduplicate_from(result, packages) ==
    IF packages = <<>> THEN result
    ELSE deduplicate_from(deduplicate_step(result, Head(packages)), Tail(packages))

deduplicate_packages_last_first(packages) == deduplicate_from(<<>>, Reverse(packages))

deduplicate_packages(packages) == deduplicate_from(<<>>, packages)

\* the (name, state, options) tuples one manifest contributes to the merge
collected(entries) ==
    LET kept == SelectSeq(entries, LAMBDA f : f.state # "absent")
    IN  [i \in 1..Len(kept) |->
            [name |-> kept[i].name, state |-> kept[i].state,
             options |-> kept[i].options]]

RECURSIVE Flatten(_)
Flatten(ss) == IF ss = <<>> THEN <<>> ELSE Head(ss) \o Flatten(Tail(ss))

\* the merged list of one kind: the tuples of every manifest, in manifest
\* order, through deduplicate_packages
merge(lists) ==
    deduplicate_packages(Flatten([i \in 1..Len(lists) |-> collected(lists[i])]))

main_formulae_with_deps(i) == Sorted(i.formulae)

\* get_all_main_packages: installed formulae minus dependencies, all casks
main_formulae_of(i) == Sorted(i.formulae \ i.deps)

main_casks_of(i) == Sorted(i.casks)

\* process_implied_uninstalls, after its three queries have succeeded
implied_uninstalls(i, processed_formula_names, processed_cask_names) ==
    LET fs == SelectSeq(main_formulae_of(i),
                        LAMBDA n : ~Contains(processed_formula_names, n))
        cs == SelectSeq(main_casks_of(i),
                        LAMBDA n : ~Contains(processed_cask_names, n))
    IN  [j \in 1..Len(fs) |->
            Call("implied", "uninstall_package", "formula", <<fs[j]>>, NoOptions)]
        \o
        [j \in 1..Len(cs) |->
            Call("implied", "uninstall_package", "cask", <<cs[j]>>, NoOptions)]

process_implied_uninstalls(i, processed_formula_names, processed_cask_names, dry_run) ==
    IF dry_run THEN <<>>
    ELSE << Query("implied", "get_installed_formulae"),
            Query("implied", "get_installed_casks"),
            Query("implied", "get_dependency_packages") >>
         \o implied_uninstalls(i, processed_formula_names, processed_cask_names)

----------------------------------------------------------------------------
(* The reconciliation passes as a state machine *)

\* what a diff prints: the explicit sections, and the implied-uninstall
\* section when it is computed
NoReport ==
    [ taps |-> <<>>, formulae_to_install |-> <<>>, formulae_with_options |-> <<>>,
      formulae_to_uninstall |-> <<>>, casks_to_install |-> <<>>,
      casks_with_options |-> <<>>, casks_to_uninstall |-> <<>>,
      implied_checked |-> FALSE, implied_formulae |-> <<>>, implied_casks |-> <<>> ]

NoLoc ==
    [ mode |-> "none", dry_run |-> FALSE, shard |-> "-",
      manifest |-> NewManifest, desired_taps |-> <<>>,
      unique_formulae |-> <<>>, unique_casks |-> <<>>,
      processed_formula_names |-> <<>>, processed_cask_names |-> <<>>,
      installed_formulae |-> {}, installed_casks |-> {},
      report |-> NoReport ]

\* One `?`-chained run of calls: brew may fail at one of them, the calls up
\* to the first Err are made, and the pass goes on only if none failed.
RunStage(calls, next) ==
    \E k \in FaultPoints(calls, active) :
        /\ k > 0 => faults < MaxFaults
        /\ LET r == Ran(calls, k, active)
           IN  /\ log' = log \o r.events
               /\ inv' = Effects(inv, r.events)
               /\ pc' = IF r.aborted THEN "failed" ELSE next
        /\ faults' = IF k > 0 THEN faults + 1 ELSE faults

\* apply(shard, dry_run, _): the path check and Manifest::from_file
Apply(shard, dry_run) ==
    /\ pc = "idle"
    /\ IF ~active[shard].exists
       THEN /\ pc' = "failed"
            /\ loc' = [NoLoc EXCEPT !.mode = "apply", !.dry_run = dry_run,
                                    !.shard = shard]
            /\ UNCHANGED <<log, inv, faults>>
       ELSE /\ RunStage(<<Call("load", "from_file", "-", <<shard>>, NoOptions)>>, "taps")
            /\ loc' = [NoLoc EXCEPT
                        !.mode = "apply", !.dry_run = dry_run, !.shard = shard,
                        !.manifest = IF active[shard].parses
                                     THEN from_file(active[shard]) ELSE @]
    /\ UNCHANGED <<active, classifyVars, lifeVars>>

\* the commands that end in apply_internal: apply, add, remove
SingleModes == {"apply", "add", "remove"}

\* apply_internal_with_options: process_taps
ApplyTaps ==
    /\ pc = "taps" /\ loc.mode \in SingleModes
    /\ RunStage(process_taps(loc.manifest, loc.dry_run, inv.taps), "formulas")
    /\ UNCHANGED <<active, loc, classifyVars, lifeVars>>

\* apply_internal_with_options: process_formulas
ApplyFormulas ==
    /\ pc = "formulas" /\ loc.mode \in SingleModes
    /\ RunStage(process_formulas(loc.manifest, loc.dry_run, inv.formulae), "casks")
    /\ UNCHANGED <<active, loc, classifyVars, lifeVars>>

\* apply_internal_with_options: process_casks
ApplyCasks ==
    /\ pc = "casks" /\ loc.mode \in SingleModes
    /\ RunStage(process_casks(loc.manifest, loc.dry_run, inv.casks), "cleanup")
    /\ UNCHANGED <<active, loc, classifyVars, lifeVars>>

\* handle_cleanup, the last step of both passes; add and remove call
\* apply_internal with skip_cleanup false
Cleanup ==
    /\ pc = "cleanup"
    /\ \E skip_cleanup \in (IF loc.mode \in {"add", "remove"} THEN {FALSE} ELSE BOOLEAN) :
          RunStage(handle_cleanup(skip_cleanup, loc.dry_run), "done")
    /\ UNCHANGED <<active, loc, classifyVars, lifeVars>>

sorted_paths == SelectSeq(ShardOrder, LAMBDA n : active[n].exists)

\* apply_all_enabled_shards_internal up to the merge: the two inventory
\* queries, every manifest loaded in file-name order, the merged lists.
ApplyAll(dry_run) ==
    /\ pc = "idle"
    /\ IF sorted_paths = <<>>
       THEN /\ pc' = "done"
            /\ loc' = [NoLoc EXCEPT !.mode = "apply_all", !.dry_run = dry_run]
            /\ UNCHANGED <<log, inv, faults>>
       ELSE /\ RunStage(
                 << Query("load", "get_installed_formulae"),
                    Query("load", "get_installed_casks") >>
                 \o [i \in 1..Len(sorted_paths) |->
                        Call("load", "from_file", "-", <<sorted_paths[i]>>, NoOptions)],
                 "all_taps")
            /\ LET loadable == SelectSeq(sorted_paths, LAMBDA n : active[n].parses)
                   all_manifests == [i \in 1..Len(loadable) |-> from_file(active[loadable[i]])]
                   taps == Flatten([i \in 1..Len(all_manifests) |->
                                        Names(all_manifests[i].taps)])
                   unique_formulae ==
                       merge([i \in 1..Len(all_manifests) |-> all_manifests[i].formulas])
                   unique_casks ==
                       merge([i \in 1..Len(all_manifests) |-> all_manifests[i].casks])
               IN  loc' = IF pc' = "failed"
                          THEN [NoLoc EXCEPT !.mode = "apply_all", !.dry_run = dry_run]
                          ELSE [NoLoc EXCEPT
                                  !.mode = "apply_all", !.dry_run = dry_run,
                                  !.desired_taps = Sorted(Range(taps)),
                                  !.unique_formulae = unique_formulae,
                                  !.unique_casks = unique_casks,
                                  !.processed_formula_names = Names(unique_formulae),
                                  !.processed_cask_names = Names(unique_casks),
                                  !.installed_formulae = inv.formulae,
                                  !.installed_casks = inv.casks]
    /\ UNCHANGED <<active, classifyVars, lifeVars>>

AllTaps ==
    /\ pc = "all_taps"
    /\ RunStage(process_all_taps(loc.desired_taps, loc.dry_run, inv.taps), "all_formulae")
    /\ UNCHANGED <<active, loc, classifyVars, lifeVars>>

\* formula_processor.process_packages / execute_operations on the merged
\* list, against the list queried before the manifests were loaded
AllFormulae ==
    /\ pc = "all_formulae"
    /\ RunStage(
          IF loc.unique_formulae = <<>> THEN <<>>
          ELSE execute_operations(
                  process_packages(loc.unique_formulae, loc.installed_formulae),
                  loc.dry_run, "formula", loc.installed_formulae, "formulas"),
          "all_casks")
    /\ UNCHANGED <<active, loc, classifyVars, lifeVars>>

AllCasks ==
    /\ pc = "all_casks"
    /\ RunStage(
          IF loc.unique_casks = <<>> THEN <<>>
          ELSE execute_operations(
                  process_packages(loc.unique_casks, loc.installed_casks),
                  loc.dry_run, "cask", loc.installed_casks, "casks"),
          "implied")
    /\ UNCHANGED <<active, loc, classifyVars, lifeVars>>

\* the "Active Formulae" listing, which queries the dependency packages,
\* then process_implied_uninstalls
AllImplied ==
    /\ pc = "implied"
    /\ RunStage(
          (IF loc.processed_formula_names # <<>>
           THEN <<Query("display", "get_dependency_packages")>> ELSE <<>>)
          \o process_implied_uninstalls(inv, loc.processed_formula_names,
                                        loc.processed_cask_names, loc.dry_run),
          "cleanup")
    /\ UNCHANGED <<active, loc, classifyVars, lifeVars>>

----------------------------------------------------------------------------
(* shard/diff.rs.  diff.rs names the manifest's lists taps (strings),       *)
(* formulas, formulae, casks_structured and casks (strings); they are read   *)
(* here as the tap names, formulas, formulae, casks and brews of             *)
(* core/manifest.rs.  A simplified string handed to process_packages counts  *)
(* as Latest without options, as in diff_all_enabled_shards' or_insert.      *)

as_latest(names) ==
    [i \in 1..Len(names) |->
        [name |-> names[i], state |-> "latest", options |-> NoOptions]]

\* one structured entry folded into desired_formulae / desired_casks
diff_insert(result, f) ==
    IF ~Contains(Names(result), f.name)
    THEN Append(result, [name |-> f.name, state |-> f.state, options |-> f.options])
    ELSE LET idx == CHOOSE i \in 1..Len(result) : result[i].name = f.name
         IN  [result EXCEPT
                ![idx].state = IF f.state = "latest" THEN "latest" ELSE @,
                ![idx].options = IF @ = NoOptions THEN f.options ELSE @]

\* one simplified string: entry(name).or_insert((Latest, []))
diff_insert_simple(result, name) ==
    IF Contains(Names(result), name) THEN result
    ELSE Append(result, [name |-> name, state |-> "latest", options |-> NoOptions])

RECURSIVE diff_fold(_, _, _)
diff_fold(result, structured, simple) ==
    IF structured # <<>>
    THEN diff_fold(diff_insert(result, Head(structured)), Tail(structured), simple)
    ELSE IF simple # <<>>
    THEN diff_fold(diff_insert_simple(result, Head(simple)), structured, Tail(simple))
    ELSE result

\* desired_formulae over the manifests in order, kind "formula" or "cask"
RECURSIVE diff_merge(_, _, _)
diff_merge(result, manifests, kind) ==
    IF manifests = <<>> THEN result
    ELSE LET m == Head(manifests)
         IN  diff_merge(
                IF kind = "formula" THEN diff_fold(result, m.formulas, m.formulae)
                ELSE diff_fold(result, m.casks, m.brews),
                Tail(manifests), kind)

\* sort_by(name) of a list without duplicate names
sort_by_name(entries) ==
    LET order == Sorted(Range(Names(entries)))
    IN  [i \in 1..Len(order) |->
            entries[CHOOSE j \in 1..Len(entries) : entries[j].name = order[i]]]

\* the combined "virtual" manifest of diff_all_enabled_shards
combined_manifest(manifests) ==
    [ NewManifest EXCEPT
        !.taps = LET ts == Sorted(UNION {Range(Names(manifests[i].taps)) :
                                            i \in 1..Len(manifests)})
                 IN  [i \in 1..Len(ts) |-> [name |-> ts[i]]],
        !.formulas = sort_by_name(diff_merge(<<>>, manifests, "formula")),
        !.casks = sort_by_name(diff_merge(<<>>, manifests, "cask")) ]

\* the queries diff_manifest cannot go on without
diff_queries(manifest) ==
    (IF manifest.taps # <<>> THEN <<Query("taps", "get_installed_taps")>> ELSE <<>>)
    \o << Query("formulas", "get_installed_formulae"),
          Query("formulas", "get_installed_casks") >>

\* diff_manifest, the explicit sections
diff_manifest(manifest, i) ==
    LET f1 == process_packages(manifest.formulas, i.formulae)
        f2 == process_packages(as_latest(manifest.formulae), i.formulae)
        c1 == process_packages(manifest.casks, i.casks)
        c2 == process_packages(as_latest(manifest.brews), i.casks)
    IN  [ NoReport EXCEPT
            !.taps = SelectSeq(Names(manifest.taps), LAMBDA t : t \notin i.taps),
            !.formulae_to_install = f1.to_install \o f2.to_install,
            !.formulae_with_options =
                SelectSeq(Names(f1.with_options) \o Names(f2.with_options),
                          LAMBDA n : ~is_installed(i.formulae, n)),
            !.formulae_to_uninstall = f1.to_uninstall \o f2.to_uninstall,
            !.casks_to_install = c1.to_install \o c2.to_install,
            !.casks_with_options =
                SelectSeq(Names(c1.with_options) \o Names(c2.with_options),
                          LAMBDA n : ~is_installed(i.casks, n)),
            !.casks_to_uninstall = c1.to_uninstall \o c2.to_uninstall ]

\* diff_manifest, the implied section (additive_only is false)
diff_implied(report, manifest, i) ==
    LET desired_formulae_names ==
            {f.name : f \in {g \in Range(manifest.formulas) : g.state # "absent"}}
            \cup Range(manifest.formulae)
        desired_casks_names ==
            {c.name : c \in {g \in Range(manifest.casks) : g.state # "absent"}}
            \cup Range(manifest.brews)
    IN  [ report EXCEPT
            !.implied_checked = TRUE,
            !.implied_formulae =
                Sorted((i.formulae \ i.deps) \ desired_formulae_names),
            !.implied_casks =
                Sorted((i.casks \ i.deps) \ desired_casks_names) ]

\* diff(path): "all" is diff_all_enabled_shards, which skips the manifests
\* that do not load; a shard name is loaded and diffed additive_only.
Diff(path) ==
    /\ pc = "idle"
    /\ LET all == path = "all"
           files == IF all THEN sorted_paths ELSE <<path>>
           loads == [i \in 1..Len(files) |->
                       [Call("load", "from_file", "-", <<files[i]>>, NoOptions)
                          EXCEPT !.res = IF active[files[i]].parses
                                         THEN "ok" ELSE "load_error"]]
           good == SelectSeq(files, LAMBDA n : active[n].parses)
           loaded == [i \in 1..Len(good) |-> from_file(active[good[i]])]
           manifest == IF all THEN combined_manifest(loaded)
                       ELSE IF loaded # <<>> THEN loaded[1] ELSE NewManifest
           here == [NoLoc EXCEPT !.mode = IF all THEN "diff_all" ELSE "diff",
                                 !.dry_run = TRUE,
                                 !.shard = IF all THEN "-" ELSE path]
       IN  IF loaded = <<>>
           THEN /\ pc' = IF all THEN "done" ELSE "failed"
                /\ log' = log \o loads
                /\ loc' = here
                /\ UNCHANGED <<inv, faults>>
           ELSE \E k \in FaultPoints(diff_queries(manifest), active) :
                   /\ k > 0 => faults < MaxFaults
                   /\ LET r == Ran(diff_queries(manifest), k, active)
                      IN  /\ log' = log \o loads \o r.events
                          /\ pc' = IF r.aborted THEN "failed"
                                   ELSE IF all THEN "diff_implied" ELSE "done"
                          /\ loc' = IF r.aborted THEN here
                                    ELSE [here EXCEPT
                                            !.manifest = manifest,
                                            !.report = diff_manifest(manifest, inv)]
                   /\ faults' = IF k > 0 THEN faults + 1 ELSE faults
                   /\ UNCHANGED inv
    /\ UNCHANGED <<active, classifyVars, lifeVars>>

\* the implied section of diff_manifest: a failure of get_all_main_packages
\* ends the diff with Ok and without the section
DiffImplied ==
    /\ pc = "diff_implied"
    /\ LET calls == << Query("implied", "get_installed_formulae"),
                       Query("implied", "get_installed_casks"),
                       Query("implied", "get_dependency_packages") >>
       IN  \E k \in FaultPoints(calls, active) :
              /\ k > 0 => faults < MaxFaults
              /\ LET r == Ran(calls, k, active)
                 IN  /\ log' = log \o r.events
                     /\ loc' = IF r.aborted THEN loc
                               ELSE [loc EXCEPT !.report =
                                        diff_implied(loc.report, loc.manifest, inv)]
              /\ faults' = IF k > 0 THEN faults + 1 ELSE faults
    /\ pc' = "done"
    /\ UNCHANGED <<active, inv, classifyVars, lifeVars>>

----------------------------------------------------------------------------
(* The passes' specification: one pass over a shards directory and an      *)
(* inventory drawn from the sets below.                                     *)

NoCommand == [op |-> "none", n |-> 0]

NoInventory == [formulae |-> {}, casks |-> {}, taps |-> {}, deps |-> {}]

\* no pass running, nothing on disk, nothing installed
PassIdle ==
    /\ active = [n \in ShardNames |-> NoFile]
    /\ inv = NoInventory
    /\ pc = "idle"
    /\ loc = NoLoc
    /\ log = <<>>
    /\ faults = 0
    /\ disabled = [n \in ShardNames |-> NoFile]
    /\ backups = {}
    /\ user = "alice"
    /\ lastCmd = NoCommand

ShardFilesA ==
    {Unparsable} \cup
    { File(PlainMeta, taps, formulas, <<>>, formulae, brews) :
        taps \in {<<>>, <<"t/one">>},
        formulas \in { <<>>,
                       <<Entry("git", "latest", <<"--HEAD">>, "latest")>>,
                       <<Entry("wget", "latest", NoOptions, "absent")>> },
        formulae \in {<<>>, <<"git">>, <<"wget:1.2">>},
        brews \in {<<>>, <<"firefox">>} }

ShardFilesB ==
    { NoFile, Unparsable,
      File(PlainMeta, <<>>, <<>>, <<>>, <<"wget">>, <<>>),
      File(PlainMeta, <<"t/one">>, <<>>, <<Entry("firefox", "latest", NoOptions, "present")>>,
           <<"git">>, <<>>),
      File(PlainMeta, <<>>, <<Entry("git", "latest", NoOptions, "latest")>>, <<>>, <<>>, <<>>),
      File(PlainMeta, <<>>, <<Entry("git", "latest", <<"--HEAD">>, "present")>>, <<>>, <<>>, <<>>) }

\* jq is installed, if at all, as a dependency
Inventories ==
    { [formulae |-> fs \cup ds, casks |-> cs, taps |-> ts, deps |-> ds] :
        fs \in SUBSET {"git", "wget"}, ds \in SUBSET {"jq"},
        cs \in SUBSET CaskNames, ts \in SUBSET TapNames }

Init ==
    /\ active \in {[a |-> fa, b |-> fb] : fa \in ShardFilesA, fb \in ShardFilesB}
    /\ inv \in Inventories
    /\ pc = "idle"
    /\ loc = NoLoc
    /\ log = <<>>
    /\ faults = 0
    /\ disabled = [n \in ShardNames |-> NoFile]
    /\ backups = {}
    /\ user = "alice"
    /\ lastCmd = NoCommand
    /\ cin = [pkgs |-> <<>>, installed |-> {}]
    /\ cout = [none |-> TRUE]

Next ==
    \/ \E shard \in ShardNames, dry_run \in BOOLEAN : Apply(shard, dry_run)
    \/ ApplyTaps
    \/ ApplyFormulas
    \/ ApplyCasks
    \/ \E dry_run \in BOOLEAN : ApplyAll(dry_run)
    \/ AllTaps
    \/ AllFormulae
    \/ AllCasks
    \/ AllImplied
    \/ Cleanup
    \/ \E path \in ShardNames \cup {"all"} : Diff(path)
    \/ DiffImplied

Spec == Init /\ [][Next]_vars

----------------------------------------------------------------------------
(* Claims about the passes *)

\* every name a shard file mentions
FileDeclared(f, kind) ==
    IF ~f.exists \/ ~f.parses THEN {}
    ELSE IF kind = "formula"
         THEN Range(Names(f.formulas)) \cup {split_name(x) : x \in Range(f.formulae)}
         ELSE Range(Names(f.casks)) \cup {split_name(x) : x \in Range(f.brews)}

\* the merged desired set of the running apply-all pass
MergedDesired(kind) ==
    IF kind = "formula" THEN Range(loc.processed_formula_names)
    ELSE Range(loc.processed_cask_names)

IsUninstall(e) == e.op = "uninstall_package"

IsMutation(e) == e.op \in MutatingOps

\* a query or a manifest load that returned Err
IsFailedRead(e) == e.op \in QueryOps \cup {"from_file"} /\ e.res # "ok"

\* the names of the given kind that the calls of one step try to uninstall
\* in the implied-uninstall stage
ImpliedGone(before, after, kind) ==
    { after[i].args[1] :
        i \in { j \in (Len(before) + 1)..Len(after) :
                  /\ after[j].stage = "implied"
                  /\ IsUninstall(after[j])
                  /\ after[j].kind = kind } }

\* C1: in an apply-all pass the implied-uninstall stage never uninstalls a
\* formula that brew lists as a dependency and never uninstalls a package
\* of the merged desired set; with git, wget and jq installed, jq a
\* dependency and only git desired, wget is the only formula it uninstalls.
C1_ImpliedSparesDepsAndDesired ==
    [][ /\ ImpliedGone(log, log', "formula") \cap inv.deps = {}
        /\ ImpliedGone(log, log', "formula") \cap MergedDesired("formula") = {}
        /\ ImpliedGone(log, log', "cask") \cap MergedDesired("cask") = {}
        /\ ( /\ pc = "implied" /\ pc' = "cleanup" /\ ~loc.dry_run
             /\ inv.formulae = {"git", "wget", "jq"}
             /\ inv.deps = {"jq"}
             /\ MergedDesired("formula") = {"git"} )
           => ImpliedGone(log, log', "formula") = {"wget"}
      ]_vars

C1_Witness ==
    /\ loc.mode = "apply_all" /\ pc = "cleanup" /\ ~loc.dry_run
    /\ MergedDesired("formula") = {"git"}
    /\ inv.formulae = {"git", "jq"} /\ inv.deps = {"jq"}
    /\ \E i \in 1..Len(log) :
          /\ log[i].stage = "implied" /\ IsUninstall(log[i])
          /\ log[i].args = <<"wget">> /\ log[i].res = "ok"

\* the critical-package allowlist of the specification; no list of the kind
\* exists in apply.rs or processor.rs
CriticalPackages == {"git"}

\* C2: the implied-uninstall stage never uninstalls a package of the
\* critical-package allowlist, whatever the enabled manifests declare.
C2_CriticalNeverUninstalled ==
    \A i \in 1..Len(log) :
        (log[i].stage = "implied" /\ IsUninstall(log[i]))
            => log[i].args[1] \notin CriticalPackages

\* C3: implied uninstall happens only in apply-all mode.  A single-shard
\* apply makes no call of the implied stage and leaves installed every
\* package its shard does not declare; a single-shard diff computes no
\* implied section and lists for uninstall only names its shard declares.
C3_SingleShardAdditive ==
    [][ /\ loc'.mode = "apply" =>
            /\ \A i \in 1..Len(log') : log'[i].stage # "implied"
            /\ \A n \in inv.formulae :
                  n \notin FileDeclared(active[loc'.shard], "formula")
                      => n \in inv'.formulae
            /\ \A n \in inv.casks :
                  n \notin FileDeclared(active[loc'.shard], "cask")
                      => n \in inv'.casks
        /\ loc'.mode = "diff" =>
            /\ ~loc'.report.implied_checked
            /\ loc'.report.implied_formulae = <<>>
            /\ loc'.report.implied_casks = <<>>
            /\ Range(loc'.report.formulae_to_uninstall)
                  \subseteq FileDeclared(active[loc'.shard], "formula")
            /\ Range(loc'.report.casks_to_uninstall)
                  \subseteq FileDeclared(active[loc'.shard], "cask")
            /\ pc' # "diff_implied"
      ]_vars

C3_Witness ==
    /\ loc.mode = "apply" /\ pc = "done" /\ ~loc.dry_run
    /\ FileDeclared(active[loc.shard], "formula") = {"git"}
    /\ FileDeclared(active[loc.shard], "cask") = {}
    /\ inv.formulae = {"git", "wget"} /\ inv.casks = {"firefox"}
    /\ \E i \in 1..Len(log) :
          log[i].op = "batch_install" /\ log[i].args = <<"git">> /\ log[i].res = "ok"

\* C4: in an apply pass, if an inventory query or a manifest load fails,
\* no mutating call has been made before the failure and none is made
\* after it.
C4_NoMutationAroundFailedRead ==
    (loc.mode \in {"apply", "apply_all"} /\ \E i \in 1..Len(log) : IsFailedRead(log[i]))
        => \A j \in 1..Len(log) : ~IsMutation(log[j])

----------------------------------------------------------------------------
(* Claims about the plan of a pass *)

Installed(kind) == IF kind = "formula" THEN inv.formulae ELSE inv.casks

\* process_result of process_formulas / process_casks: what process_packages
\* returns for the manifest of the running single-shard pass
process_result(kind) ==
    process_packages(
        IF kind = "formula"
        THEN package_info(loc.manifest.formulas, loc.manifest.formulae)
        ELSE package_info(loc.manifest.casks, loc.manifest.brews),
        Installed(kind))

\* formula_result / cask_result of apply_all_enabled_shards_internal
all_result(kind) ==
    IF kind = "formula"
    THEN process_packages(loc.unique_formulae, loc.installed_formulae)
    ELSE process_packages(loc.unique_casks, loc.installed_casks)

\* the names of the four lists of a PackageProcessResult, one after the other
BucketNames(result) ==
    result.to_install \o result.to_upgrade
        \o Names(result.with_options) \o result.to_uninstall

NoDuplicates(s) == \A i, j \in 1..Len(s) : s[i] = s[j] => i = j

\* C11: in a pass, for each kind, a package name occurs at most once across
\* to_install, to_upgrade, with_options and to_uninstall taken together,
\* also when the manifest gives the name as a structured entry and as a
\* simplified string, or gives it more than once; the same for the lists a
\* diff reports.
C11_NameInOneBucket ==
    /\ (loc.mode \in SingleModes /\ pc = "formulas")
          => NoDuplicates(BucketNames(process_result("formula")))
    /\ (loc.mode \in SingleModes /\ pc = "casks")
          => NoDuplicates(BucketNames(process_result("cask")))
    /\ pc = "all_formulae" => NoDuplicates(BucketNames(all_result("formula")))
    /\ pc = "all_casks" => NoDuplicates(BucketNames(all_result("cask")))
    /\ loc.mode \in {"diff", "diff_all"} =>
          /\ NoDuplicates(loc.report.formulae_to_install
                            \o loc.report.formulae_with_options
                            \o loc.report.formulae_to_uninstall)
          /\ NoDuplicates(loc.report.casks_to_install
                            \o loc.report.casks_with_options
                            \o loc.report.casks_to_uninstall)

\* the structured entries of a kind as written in a shard file
FileEntries(f, kind) ==
    IF ~f.exists \/ ~f.parses THEN {}
    ELSE IF kind = "formula" THEN Range(f.formulas) ELSE Range(f.casks)

\* the simplified strings of a kind as written in a shard file
FileStrings(f, kind) ==
    IF ~f.exists \/ ~f.parses THEN {}
    ELSE IF kind = "formula" THEN Range(f.formulae) ELSE Range(f.brews)

\* some enabled shard file declares the name with the given state
DeclaredAs(kind, n, st) ==
    \E sh \in ShardNames : \E e \in FileEntries(active[sh], kind) :
        e.name = n /\ e.state = st

DeclaredSimplified(kind, n) ==
    \E sh \in ShardNames : \E x \in FileStrings(active[sh], kind) :
        x = n \/ split_name(x) = n

\* the merged declarations of the running merged pass, once it has them
MergedList(kind) ==
    IF loc.mode = "apply_all" /\ pc \in {"all_taps", "all_formulae", "all_casks", "implied", "cleanup"}
    THEN (IF kind = "formula" THEN loc.unique_formulae ELSE loc.unique_casks)
    ELSE IF loc.mode = "diff_all" /\ pc = "diff_implied"
    THEN (IF kind = "formula" THEN loc.manifest.formulas ELSE loc.manifest.casks)
    ELSE <<>>

\* C12: in a merged pass a name that some manifest declares Latest has
\* merged state Latest, and a name no manifest declares Latest (neither by
\* a state key nor by the simplified form) has merged state Present; with
\* git declared Latest in one manifest, Present in another, without options
\* and installed, the formula classification is to_upgrade = [git].
C12_LatestWinsMerge ==
    /\ \A kind \in {"formula", "cask"} :
          \A i \in 1..Len(MergedList(kind)) :
             LET e == MergedList(kind)[i] IN
             /\ DeclaredAs(kind, e.name, "latest") => e.state = "latest"
             /\ (~DeclaredAs(kind, e.name, "latest") /\ ~DeclaredSimplified(kind, e.name))
                   => e.state = "present"
    /\ ( /\ pc = "all_formulae"
         /\ DeclaredAs("formula", "git", "latest")
         /\ ~\E sh \in ShardNames : \E e \in FileEntries(active[sh], "formula") :
                e.name = "git" /\ e.options # NoOptions
         /\ "git" \in loc.installed_formulae )
       => Contains(all_result("formula").to_upgrade, "git")

\* shard file sh declares the name Present or Latest
DesiredIn(sh, kind, n) ==
    \/ \E e \in FileEntries(active[sh], kind) : e.name = n /\ e.state # "absent"
    \/ \E x \in FileStrings(active[sh], kind) : split_name(x) = n

\* one enabled manifest declares the name Absent, another Present or Latest
AbsentAndDesired(kind, n) ==
    \E s1, s2 \in ShardNames :
        /\ s1 # s2
        /\ \E e \in FileEntries(active[s1], kind) : e.name = n /\ e.state = "absent"
        /\ DesiredIn(s2, kind, n)

\* C13: in a merged pass a package that one manifest declares Absent and
\* another enabled manifest declares Present or Latest is in the merged
\* desired set, no uninstall of it is attempted by apply-all, and diff-all
\* lists it neither among the packages to uninstall nor among the implied
\* uninstalls.
C13_AbsentNotSubtracted ==
    \A kind \in {"formula", "cask"} : \A n \in FormulaNames \cup CaskNames :
        AbsentAndDesired(kind, n) =>
            /\ (loc.mode = "apply_all" /\ pc \in {"all_taps", "all_formulae", "all_casks",
                                                   "implied", "cleanup", "done"})
                  => n \in MergedDesired(kind)
            /\ loc.mode = "apply_all" =>
                  \A i \in 1..Len(log) :
                      ~(IsUninstall(log[i]) /\ log[i].kind = kind /\ log[i].args = <<n>>)
            /\ loc.mode = "diff_all" =>
                  /\ ~Contains(loc.report.formulae_to_uninstall, n) \/ kind # "formula"
                  /\ ~Contains(loc.report.implied_formulae, n) \/ kind # "formula"
                  /\ ~Contains(loc.report.casks_to_uninstall, n) \/ kind # "cask"
                  /\ ~Contains(loc.report.implied_casks, n) \/ kind # "cask"

C13_Witness ==
    /\ loc.mode = "apply_all" /\ pc = "done" /\ ~loc.dry_run
    /\ AbsentAndDesired("formula", "wget")
    /\ "wget" \in loc.installed_formulae
    /\ "wget" \in inv.formulae
    /\ MergedDesired("formula") = {"wget"}
    /\ \E i \in 1..Len(log) :
          log[i].stage = "implied" /\ log[i].op = "get_dependency_packages"
                                  /\ log[i].res = "ok"

\* the structured entries of a kind that the enabled shard files give, in
\* manifest order
DeclaredEntries(kind) ==
    Flatten([i \in 1..Len(sorted_paths) |->
                LET f == active[sorted_paths[i]]
                IN  IF ~f.parses THEN <<>>
                    ELSE IF kind = "formula" THEN f.formulas ELSE f.casks])

\* the first non-empty options list declared for a name, in manifest order
FirstNonEmptyOptions(kind, n) ==
    LET s == SelectSeq(DeclaredEntries(kind),
                       LAMBDA e : e.name = n /\ e.options # NoOptions)
    IN  IF s = <<>> THEN NoOptions ELSE s[1].options

\* C14: in a merged pass the merged options of a name are the first
\* non-empty options list declared for it, in manifest order: a later list
\* never replaces an earlier non-empty one and an earlier empty list never
\* suppresses a later non-empty one.
C14_FirstNonEmptyOptionsWin ==
    \A kind \in {"formula", "cask"} :
        \A i \in 1..Len(MergedList(kind)) :
            MergedList(kind)[i].options
                = FirstNonEmptyOptions(kind, MergedList(kind)[i].name)

\* the manifests of the enabled shard files, loaded in the given order
loaded_in(order) == [i \in 1..Len(order) |-> from_file(active[order[i]])]

\* unique_formulae / unique_casks of apply-all, had the files been read in
\* the given order
unique_in(order, kind) ==
    merge([i \in 1..Len(order) |->
              IF kind = "formula" THEN loaded_in(order)[i].formulas
              ELSE loaded_in(order)[i].casks])

\* the package list of diff-all's combined manifest, had the files been
\* read in the given order
combined_in(order, kind) ==
    IF kind = "formula" THEN combined_manifest(loaded_in(order)).formulas
    ELSE combined_manifest(loaded_in(order)).casks

\* the same names, each with the same state and the same options
SameDeclarations(s, t) ==
    LET decl(e) == [name |-> e.name, state |-> e.state, options |-> e.options]
    IN  {decl(s[i]) : i \in 1..Len(s)} = {decl(t[i]) : i \in 1..Len(t)}

\* C15: the merged desired state of a merged pass (the taps, and for every
\* formula and cask its merged state and options) is what the pass would
\* have computed with the manifests in the opposite order.
C15_MergeOrderIndependent ==
    /\ (loc.mode = "apply_all" /\ pc = "all_taps") =>
          /\ Range(loc.desired_taps)
                = UNION {Range(Names(loaded_in(Reverse(sorted_paths))[i].taps)) :
                            i \in 1..Len(sorted_paths)}
          /\ \A kind \in {"formula", "cask"} :
                SameDeclarations(MergedList(kind),
                                 unique_in(Reverse(sorted_paths), kind))
    /\ (loc.mode = "diff_all" /\ pc = "diff_implied") =>
          \A kind \in {"formula", "cask"} :
              SameDeclarations(
                  MergedList(kind),
                  combined_in(Reverse(SelectSeq(sorted_paths,
                                                LAMBDA n : active[n].parses)), kind))

\* the place of a call's stage in a pass: the loads and the up-front
\* queries, tap sync, formulae, casks, the listing of the active packages,
\* the implied uninstalls, cleanup
StageRank(stage) ==
    CASE stage = "load"     -> 0
      [] stage = "taps"     -> 1
      [] stage = "formulas" -> 2
      [] stage = "casks"    -> 3
      [] stage = "display"  -> 4
      [] stage = "implied"  -> 5
      [] stage = "cleanup"  -> 6

IsInstallOrUpgrade(e) ==
    e.op \in {"batch_install", "batch_upgrade", "install_with_options",
              "upgrade_with_options"}

\* C17: the calls of an apply pass are made stage by stage, in the order tap
\* sync, formulae, casks, implied uninstall, cleanup: no install or upgrade
\* precedes a tap addition, no formula operation follows a cask operation,
\* no implied uninstall precedes an operation of the cask stage, and no
\* call at all follows the cleanup.
C17_StagesInOrder ==
    loc.mode \in {"apply", "apply_all"} =>
        \A i, j \in 1..Len(log) :
            i < j =>
                /\ StageRank(log[i].stage) <= StageRank(log[j].stage)
                /\ ~(IsInstallOrUpgrade(log[i]) /\ log[j].op = "add_tap")
                /\ ~(log[i].stage = "implied" /\ IsUninstall(log[i])
                        /\ log[j].stage = "casks")
                /\ log[i].op # "run_cleanup"

C17_Witness ==
    /\ loc.mode = "apply_all" /\ pc = "done"
    /\ \E i1, i2, i3, i4, i5 \in 1..Len(log) :
          /\ i1 < i2 /\ i2 < i3 /\ i3 < i4 /\ i4 < i5 /\ i5 = Len(log)
          /\ log[i1].op = "add_tap" /\ log[i1].res = "ok"
          /\ log[i2].op = "batch_install" /\ log[i2].kind = "formula"
          /\ log[i2].res = "ok"
          /\ log[i3].op = "batch_install" /\ log[i3].kind = "cask"
          /\ log[i3].res = "ok"
          /\ log[i4].stage = "implied" /\ IsUninstall(log[i4]) /\ log[i4].res = "ok"
          /\ log[i5].op = "run_cleanup" /\ log[i5].res = "ok"

\* what an apply of the manifests the running diff has read would compute
\* against the same inventory: process_result for a single shard, the
\* classification of the merged list for all shards
apply_plan(kind) ==
    IF loc.mode = "diff" THEN process_result(kind)
    ELSE process_packages(unique_in(sorted_paths, kind), Installed(kind))

\* the taps that apply would add
apply_taps ==
    IF loc.mode = "diff"
    THEN {t \in Range(Names(loc.manifest.taps)) : t \notin inv.taps}
    ELSE {t \in UNION {Range(Names(loaded_in(sorted_paths)[i].taps)) :
                          i \in 1..Len(sorted_paths)} : t \notin inv.taps}

\* the names apply-all would hand to uninstall_package in its implied stage
apply_implied(kind) ==
    LET calls == implied_uninstalls(inv, Names(unique_in(sorted_paths, "formula")),
                                    Names(unique_in(sorted_paths, "cask")))
    IN  {calls[i].args[1] : i \in {j \in 1..Len(calls) : calls[j].kind = kind}}

\* C18: a diff that has run to its end reports the plan an apply of the
\* same manifests against the same inventory computes: the same taps to
\* add, per kind the same names to install, to install with options and to
\* uninstall, no upgrade left out, and in merged mode the same implied
\* uninstalls.  The lists are compared as sets of names.
C18_DiffReportsApplyPlan ==
    ( /\ loc.mode \in {"diff", "diff_all"} /\ pc = "done"
      /\ \A n \in Range(sorted_paths) : active[n].parses
      /\ sorted_paths # <<>> ) =>
        /\ Range(loc.report.taps) = apply_taps
        /\ Range(loc.report.formulae_to_install)
              = Range(apply_plan("formula").to_install)
        /\ Range(loc.report.formulae_with_options)
              = Range(Names(apply_plan("formula").with_options))
        /\ Range(loc.report.formulae_to_uninstall)
              = Range(apply_plan("formula").to_uninstall)
        /\ apply_plan("formula").to_upgrade = <<>>
        /\ Range(loc.report.casks_to_install) = Range(apply_plan("cask").to_install)
        /\ Range(loc.report.casks_with_options)
              = Range(Names(apply_plan("cask").with_options))
        /\ Range(loc.report.casks_to_uninstall)
              = Range(apply_plan("cask").to_uninstall)
        /\ apply_plan("cask").to_upgrade = <<>>
        /\ loc.report.implied_checked =>
              /\ Range(loc.report.implied_formulae) = apply_implied("formula")
              /\ Range(loc.report.implied_casks) = apply_implied("cask")

\* the calls the stage the running pass is at sets out to make
stage_calls ==
    CASE pc = "taps"         -> process_taps(loc.manifest, loc.dry_run, inv.taps)
      [] pc = "formulas"     -> process_formulas(loc.manifest, loc.dry_run, inv.formulae)
      [] pc = "casks"        -> process_casks(loc.manifest, loc.dry_run, inv.casks)
      [] pc = "all_taps"     -> process_all_taps(loc.desired_taps, loc.dry_run, inv.taps)
      [] pc = "all_formulae" ->
            IF loc.unique_formulae = <<>> THEN <<>>
            ELSE execute_operations(all_result("formula"), loc.dry_run, "formula",
                                    loc.installed_formulae, "formulas")
      [] pc = "all_casks"    ->
            IF loc.unique_casks = <<>> THEN <<>>
            ELSE execute_operations(all_result("cask"), loc.dry_run, "cask",
                                    loc.installed_casks, "casks")
      [] pc = "implied"      ->
            (IF loc.processed_formula_names # <<>>
             THEN <<Query("display", "get_dependency_packages")>> ELSE <<>>)
            \o process_implied_uninstalls(inv, loc.processed_formula_names,
                                          loc.processed_cask_names, loc.dry_run)
      [] OTHER               -> <<>>

\* the calls made in the step from log to log'
NewCalls == (Len(log) + 1)..Len(log')

\* C19: in an apply pass a failed install, upgrade or uninstall of one
\* package does not keep the remaining operations from being attempted: in
\* the step in which it fails every call the stage had set out to make is
\* made, and the pass goes on to its next stage.
C19_PackageFailureDoesNotAbort ==
    [][ ( /\ loc.mode \in {"apply", "apply_all"}
          /\ \E i \in NewCalls : log'[i].op \in PackageOps /\ log'[i].res # "ok" )
        => /\ Len(log') - Len(log) = Len(stage_calls)
           /\ pc' # "failed"
      ]_vars

\* C20: in the tap stage of an apply pass a failure to add one tap does not
\* abort the pass: every tap addition the stage had set out to make is
\* made, and the pass goes on to its formula stage.
C20_TapFailureDoesNotAbort ==
    [][ ( /\ loc.mode \in {"apply", "apply_all"}
          /\ \E i \in NewCalls : log'[i].op = "add_tap" /\ log'[i].res # "ok" )
        => /\ Len(log') - Len(log) = Len(stage_calls)
           /\ pc' \in {"formulas", "all_formulae"}
      ]_vars

\* the calls a second pass of the same command would make, over the files
\* and the inventory as they now are: for one shard apply_internal's
\* stages, for all shards the stages of apply_all_enabled_shards_internal
second_pass_calls ==
    IF loc.mode = "apply"
    THEN LET m == from_file(active[loc.shard])
         IN  process_taps(m, FALSE, inv.taps)
             \o process_formulas(m, FALSE, inv.formulae)
             \o process_casks(m, FALSE, inv.casks)
    ELSE LET taps == UNION {Range(Names(loaded_in(sorted_paths)[i].taps)) :
                              i \in 1..Len(sorted_paths)}
             fs == unique_in(sorted_paths, "formula")
             cs == unique_in(sorted_paths, "cask")
         IN  process_all_taps(Sorted(taps), FALSE, inv.taps)
             \o (IF fs = <<>> THEN <<>>
                 ELSE execute_operations(process_packages(fs, inv.formulae),
                                         FALSE, "formula", inv.formulae, "formulas"))
             \o (IF cs = <<>> THEN <<>>
                 ELSE execute_operations(process_packages(cs, inv.casks),
                                         FALSE, "cask", inv.casks, "casks"))
             \o process_implied_uninstalls(inv, Names(fs), Names(cs), FALSE)

\* an apply pass that has run to its end with every call answered Ok
CompletedApply ==
    /\ loc.mode \in {"apply", "apply_all"} /\ pc = "done" /\ ~loc.dry_run
    /\ \A i \in 1..Len(log) : log[i].res = "ok"

InBothForms(f, kind, n) ==
    /\ \E e \in FileEntries(f, kind) : e.name = n
    /\ \E x \in FileStrings(f, kind) : split_name(x) = n

\* the shard file without the simplified strings that repeat the name of one
\* of its structured entries
without_duplicates(f) ==
    [f EXCEPT
      !.formulae = SelectSeq(@, LAMBDA x : ~InBothForms(f, "formula", split_name(x))),
      !.brews = SelectSeq(@, LAMBDA x : ~InBothForms(f, "cask", split_name(x)))]

\* C23: a simplified string that repeats the name of a structured entry of
\* the same manifest changes nothing in what a pass does: the formula stage
\* and the cask stage of a single-shard pass set out to make the calls they
\* would make had the shard file not contained the duplicate strings.
C23_SimplifiedDuplicateNoOp ==
    (loc.mode = "apply" /\ pc \in {"formulas", "casks"}) =>
        LET plain == from_file(without_duplicates(active[loc.shard]))
        IN  /\ pc = "formulas" =>
                  process_formulas(loc.manifest, loc.dry_run, inv.formulae)
                    = process_formulas(plain, loc.dry_run, inv.formulae)
            /\ pc = "casks" =>
                  process_casks(loc.manifest, loc.dry_run, inv.casks)
                    = process_casks(plain, loc.dry_run, inv.casks)

\* a package the shard file gives in the simplified form only
SimplifiedOnly(f, kind, n) ==
    /\ \E x \in FileStrings(f, kind) : split_name(x) = n
    /\ ~\E e \in FileEntries(f, kind) : e.name = n

\* C24: a package given only as a simplified string ("name" or
\* "name:version") is declared Latest: when it is installed, the stage of a
\* single-shard apply pass that classifies its kind puts it in to_upgrade.
C24_SimplifiedIsLatest ==
    loc.mode = "apply" =>
        /\ pc = "formulas" =>
              \A n \in inv.formulae :
                  SimplifiedOnly(active[loc.shard], "formula", n)
                      => Contains(process_result("formula").to_upgrade, n)
        /\ pc = "casks" =>
              \A n \in inv.casks :
                  SimplifiedOnly(active[loc.shard], "cask", n)
                      => Contains(process_result("cask").to_upgrade, n)

----------------------------------------------------------------------------
(* core/manifest.rs: Manifest::to_file *)

\* the string to_file writes for a structured entry
format_entry(name, version) ==
    IF version = "latest" THEN name
    ELSE CASE name = "wget" /\ version = "1.2" -> "wget:1.2"

\* the second loop of a section of to_file: the simplified strings whose
\* name part has not been written yet
RECURSIVE append_simple(_, _, _)
append_simple(out, names, simple) ==
    IF simple = <<>> THEN out
    ELSE LET x == Head(simple)
         IN  IF split_name(x) \in names
             THEN append_simple(out, names, Tail(simple))
             ELSE append_simple(Append(out, x), names \cup {split_name(x)}, Tail(simple))

simplified_list(structured, simple) ==
    append_simple(
        [i \in 1..Len(structured) |->
            format_entry(structured[i].name, structured[i].version)],
        Range(Names(structured)), simple)

\* the file to_file writes: metadata, taps, and both package sections as
\* simplified strings only
to_file(m) ==
    File(m.metadata, Names(m.taps), <<>>, <<>>,
         simplified_list(m.formulas, m.formulae),
         simplified_list(m.casks, m.brews))

----------------------------------------------------------------------------
(* shard/manager.rs: ShardManager *)

\* ShardManager::new
protected_shards == {"system", "user"}

Users == {"alice", "bob"}

LifeNames == {"system", "work"}

\* a name with a character is_valid_shard_name rejects
BadName == "bad/name"

\* the empty name, which is_valid_shard_name rejects as well
EmptyName == ""

is_valid_shard_name(name) == name # EmptyName /\ name # BadName

Loads(f) == f.exists /\ f.parses

flagged(f) == f.metadata.protected \/ f.metadata.protection_level > 0

\* ShardManager::is_protected
is_protected(name) ==
    IF name \in protected_shards THEN TRUE
    ELSE IF Loads(active[name]) THEN flagged(active[name])
    ELSE IF Loads(disabled[name]) THEN flagged(disabled[name])
    ELSE FALSE

\* Manifest::can_modify: the user name is not looked at
can_modify(manifest, username) == ~manifest.metadata.protected

\* ShardManager::can_modify_shard
can_modify_shard(name) ==
    IF Loads(active[name]) THEN can_modify(from_file(active[name]), user)
    ELSE IF Loads(disabled[name]) THEN can_modify(from_file(disabled[name]), user)
    ELSE TRUE

\* the record of a shard command
Command(op, name, force, answers, result, wrote_backup) ==
    [ op |-> op, name |-> name, force |-> force, answers |-> answers,
      result |-> result, wrote_backup |-> wrote_backup,
      was_active |-> IF name \in DOMAIN active THEN active[name] ELSE NoFile,
      was_disabled |-> IF name \in DOMAIN disabled THEN disabled[name] ELSE NoFile,
      n |-> lastCmd.n + 1 ]

\* backup_shard of an active shard, when the copy succeeds
backup_shard(name) == backups \cup {[name |-> name, content |-> active[name]]}

\* grow_shard
GrowShard(name) ==
    \E write_ok \in BOOLEAN :
        LET reached == is_valid_shard_name(name) /\ ~active[name].exists
            result ==
                IF ~is_valid_shard_name(name) THEN "invalid_name"
                ELSE IF active[name].exists THEN "exists"
                ELSE IF ~write_ok THEN "fs_error"
                ELSE "ok"
            manifest ==
                [NewManifest EXCEPT !.metadata.allowed_users =
                    IF user # "unknown" THEN Append(@, user) ELSE @]
        IN  /\ lastCmd.n < MaxOps
            /\ ~reached => write_ok
            /\ active' = IF result = "ok"
                         THEN [active EXCEPT ![name] = to_file(manifest)]
                         ELSE active
            /\ lastCmd' = Command("grow", name, FALSE, [write_ok |-> write_ok],
                                  result, FALSE)
            /\ UNCHANGED <<disabled, backups, user, brewVars, classifyVars>>

\* shatter_shard
ShatterShard(name, force) ==
    \E confirm_protected \in BOOLEAN, confirm \in BOOLEAN,
       backup_ok \in BOOLEAN, remove_ok \in BOOLEAN :
        LET valid == is_valid_shard_name(name)
            prot == valid /\ is_protected(name)
            is_active == valid /\ active[name].exists
            is_disabled == valid /\ disabled[name].exists
            result ==
                IF ~valid THEN "invalid_name"
                ELSE IF prot /\ ~can_modify_shard(name) THEN "protected"
                ELSE IF prot /\ ~force /\ ~confirm_protected THEN "cancelled"
                ELSE IF ~is_active /\ ~is_disabled THEN "not_found"
                ELSE IF is_active /\ ~backup_ok /\ ~force THEN "backup_failed"
                ELSE IF ~force /\ ~confirm THEN "cancelled_late"
                ELSE IF ~remove_ok THEN "fs_error"
                ELSE "ok"
            wrote == is_active /\ backup_ok
                     /\ result \in {"cancelled_late", "fs_error", "ok"}
            asked == prot /\ can_modify_shard(name) /\ ~force
            found == valid /\ (is_active \/ is_disabled)
                     /\ result \notin {"protected", "cancelled"}
        IN  /\ lastCmd.n < MaxOps
            \* an answer that is never asked for is not an input
            /\ ~asked => confirm_protected
            /\ ~(found /\ is_active) => backup_ok
            /\ ~(found /\ ~force /\ result # "backup_failed") => confirm
            /\ result \notin {"fs_error", "ok"} => remove_ok
            /\ backups' = IF wrote THEN backup_shard(name) ELSE backups
            /\ active' = IF result = "ok" /\ is_active
                         THEN [active EXCEPT ![name] = NoFile] ELSE active
            /\ disabled' = IF result = "ok" /\ ~is_active
                           THEN [disabled EXCEPT ![name] = NoFile] ELSE disabled
            /\ lastCmd' = Command("shatter", name, force,
                                  [confirm_protected |-> confirm_protected,
                                   confirm |-> confirm, backup_ok |-> backup_ok,
                                   fs_ok |-> remove_ok],
                                  result, wrote)
            /\ UNCHANGED <<user, brewVars, classifyVars>>

\* disable_shard
DisableShard(name) ==
    \E confirm \in BOOLEAN, backup_ok \in BOOLEAN, move_ok \in BOOLEAN :
        LET valid == is_valid_shard_name(name)
            prot == valid /\ is_protected(name)
            result ==
                IF ~valid THEN "invalid_name"
                ELSE IF prot /\ ~can_modify_shard(name) THEN "protected"
                ELSE IF prot /\ ~confirm THEN "cancelled"
                ELSE IF ~active[name].exists
                     THEN (IF disabled[name].exists THEN "already" ELSE "not_found")
                ELSE IF ~move_ok THEN "fs_error"
                ELSE "ok"
            wrote == backup_ok /\ result \in {"fs_error", "ok"}
        IN  /\ lastCmd.n < MaxOps
            \* an answer that is never asked for is not an input
            /\ ~(prot /\ can_modify_shard(name)) => confirm
            /\ result \notin {"fs_error", "ok"} => (backup_ok /\ move_ok)
            /\ backups' = IF wrote THEN backup_shard(name) ELSE backups
            /\ active' = IF result = "ok"
                         THEN [active EXCEPT ![name] = NoFile] ELSE active
            /\ disabled' = IF result = "ok"
                           THEN [disabled EXCEPT ![name] = active[name]] ELSE disabled
            /\ lastCmd' = Command("disable", name, FALSE,
                                  [confirm |-> confirm, backup_ok |-> backup_ok,
                                   fs_ok |-> move_ok],
                                  result, wrote)
            /\ UNCHANGED <<user, brewVars, classifyVars>>

\* enable_shard: a disabled manifest that loads is rewritten by to_file at
\* the active path, one that does not is moved as it is
EnableShard(name) ==
    \E move_ok \in BOOLEAN :
        LET valid == is_valid_shard_name(name)
            result ==
                IF ~valid THEN "invalid_name"
                ELSE IF ~disabled[name].exists
                     THEN (IF active[name].exists THEN "already" ELSE "not_found")
                ELSE IF ~move_ok THEN "fs_error"
                ELSE "ok"
        IN  /\ lastCmd.n < MaxOps
            /\ result \notin {"fs_error", "ok"} => move_ok
            /\ active' = IF result = "ok"
                         THEN [active EXCEPT ![name] =
                                 IF Loads(disabled[name])
                                 THEN to_file(from_file(disabled[name]))
                                 ELSE disabled[name]]
                         ELSE active
            /\ disabled' = IF result = "ok"
                           THEN [disabled EXCEPT ![name] = NoFile] ELSE disabled
            /\ lastCmd' = Command("enable", name, FALSE, [fs_ok |-> move_ok],
                                  result, FALSE)
            /\ UNCHANGED <<backups, user, brewVars, classifyVars>>

\* a shard file with the given metadata
Shard(p, au, pl) == File(Meta(p, au, pl), <<>>, <<>>, <<>>, <<"git">>, <<>>)

LifeActiveFiles ==
    { NoFile, Unparsable, Shard(FALSE, <<>>, 0), Shard(TRUE, <<>>, 0),
      Shard(TRUE, <<"alice">>, 0), Shard(FALSE, <<>>, 1) }

LifeDisabledFiles == {NoFile, Shard(TRUE, <<"alice">>, 0)}

InitLifecycle ==
    /\ active \in [LifeNames -> LifeActiveFiles]
    /\ disabled \in [LifeNames -> LifeDisabledFiles]
    /\ backups = {}
    /\ user \in Users
    /\ lastCmd = NoCommand
    /\ inv = NoInventory
    /\ pc = "idle"
    /\ loc = NoLoc
    /\ log = <<>>
    /\ faults = 0
    /\ cin = [pkgs |-> <<>>, installed |-> {}]
    /\ cout = [none |-> TRUE]

CommandNames == LifeNames \cup {BadName, EmptyName}

NextLifecycle ==
    \/ \E name \in CommandNames : GrowShard(name)
    \/ \E name \in CommandNames, force \in BOOLEAN : ShatterShard(name, force)
    \/ \E name \in CommandNames : DisableShard(name)
    \/ \E name \in CommandNames : EnableShard(name)

SpecLifecycle == InitLifecycle /\ [][NextLifecycle]_vars

----------------------------------------------------------------------------
(* package/operations.rs: add_packages and remove_packages on one shard *)

OpsNames == {"system", "work", "alice_user", "bob_user"}

\* resolve_manifest_path: "user" is the acting user's own shard
resolve_manifest_path(target) ==
    IF target = "user"
    THEN (IF user = "alice" THEN "alice_user" ELSE "bob_user")
    ELSE target

\* check_package_availability: what `brew info` knows the name as
available_as_brew(name) == name \in FormulaNames

available_as_cask(name) == name \in CaskNames

\* process_package: the type a package is added as, "none" when it is
\* skipped; auto mode prefers the cask
process_package(name, force_brew, force_cask, dry_run, confirm) ==
    IF force_brew
    THEN IF available_as_brew(name) THEN "brew"
         ELSE IF available_as_cask(name)
              THEN (IF dry_run \/ confirm THEN "cask" ELSE "none")
         ELSE "none"
    ELSE IF force_cask
    THEN IF available_as_cask(name) THEN "cask"
         ELSE IF available_as_brew(name)
              THEN (IF dry_run \/ confirm THEN "brew" ELSE "none")
         ELSE "none"
    ELSE IF available_as_cask(name) THEN "cask"
    ELSE IF available_as_brew(name) THEN "brew"
    ELSE "none"

already_in_manifest(m, name) ==
    \/ Contains(Names(m.formulas), name) \/ Contains(m.formulae, name)
    \/ Contains(Names(m.casks), name) \/ Contains(m.brews, name)

\* add_packages, the manifest edit for one package of the given type: a
\* structured entry in state Latest and the name in the simplified list
add_to_manifest(m, name, type) ==
    LET entry == [name |-> name, version |-> "latest", options |-> NoOptions,
                  state |-> "latest"]
    IN  IF type = "brew"
        THEN [m EXCEPT !.formulas = Append(@, entry), !.formulae = Append(@, name)]
        ELSE [m EXCEPT !.casks = Append(@, entry), !.brews = Append(@, name)]

\* remove_packages_from_single_shard, the manifest edit for one package:
\* structured entries of that name and simplified strings equal to it
remove_from_manifest(m, name, force_brew, force_cask) ==
    LET in_formulas == ~force_cask \/ force_brew
        in_casks == ~force_brew \/ force_cask
    IN  [m EXCEPT
          !.formulas = IF in_formulas THEN SelectSeq(@, LAMBDA f : f.name # name) ELSE @,
          !.formulae = IF in_formulas THEN SelectSeq(@, LAMBDA x : x # name) ELSE @,
          !.casks = IF in_casks THEN SelectSeq(@, LAMBDA c : c.name # name) ELSE @,
          !.brews = IF in_casks THEN SelectSeq(@, LAMBDA x : x # name) ELSE @]

OpsCommand(op, target, pkg, dry_run, force_brew, force_cask, result) ==
    [ op |-> op, name |-> target, pkg |-> pkg, dry_run |-> dry_run,
      force_brew |-> force_brew, force_cask |-> force_cask, result |-> result,
      was_active |-> active[resolve_manifest_path(target)],
      n |-> lastCmd.n + 1 ]

\* add_packages for one package: validation, the protection checks, the
\* edit, to_file, and the reload that apply_internal is then run on
AddPackages(target, pkg, force_brew, force_cask, dry_run) ==
    /\ pc = "idle"
    /\ \E confirm \in BOOLEAN, write_ok \in BOOLEAN :
        LET path == resolve_manifest_path(target)
            file == active[path]
            manifest == IF file.exists THEN from_file(file) ELSE NewManifest
            refused == manifest.metadata.protected \/ is_protected(path)
            type == process_package(pkg, force_brew, force_cask, dry_run, confirm)
            asks == /\ ~dry_run
                    /\ \/ force_brew /\ ~available_as_brew(pkg) /\ available_as_cask(pkg)
                       \/ ~force_brew /\ force_cask /\ ~available_as_cask(pkg)
                          /\ available_as_brew(pkg)
            edited == add_to_manifest(manifest, pkg, type)
            result ==
                IF ~valid_package_name(pkg) THEN "invalid_name"
                ELSE IF file.exists /\ ~file.parses THEN "load_error"
                ELSE IF refused THEN "refused"
                ELSE IF already_in_manifest(manifest, pkg) \/ type = "none" THEN "nothing"
                ELSE IF dry_run THEN "dry_run"
                ELSE IF ~write_ok THEN "fs_error"
                ELSE "applying"
            called == /\ valid_package_name(pkg) /\ ~(file.exists /\ ~file.parses)
                      /\ ~refused /\ ~already_in_manifest(manifest, pkg)
        IN  \* an answer that is never asked for is not an input
            /\ ~(called /\ asks) => confirm
            /\ result \notin {"fs_error", "applying"} => write_ok
            /\ ~write_ok => faults < MaxFaults
            /\ faults' = IF write_ok THEN faults ELSE faults + 1
            /\ lastCmd' = OpsCommand("add", target, pkg, dry_run, force_brew,
                                     force_cask, result)
            /\ IF result = "applying"
               THEN /\ active' = [active EXCEPT ![path] = to_file(edited)]
                    /\ log' = log \o
                         << [Call("save", "to_file", "-", <<path>>, NoOptions)
                                EXCEPT !.res = "ok"],
                            [Call("load", "from_file", "-", <<path>>, NoOptions)
                                EXCEPT !.res = "ok"] >>
                    /\ loc' = [NoLoc EXCEPT !.mode = "add", !.shard = path,
                                 !.manifest = from_file(to_file(edited))]
                    /\ pc' = "taps"
               ELSE /\ pc' = IF result \in {"invalid_name", "load_error", "fs_error"}
                             THEN "failed" ELSE "done"
                    /\ loc' = [NoLoc EXCEPT !.mode = "add", !.shard = path,
                                            !.dry_run = dry_run]
                    /\ UNCHANGED <<active, log>>
    /\ UNCHANGED <<inv, disabled, backups, user, classifyVars>>

\* remove_packages for one package and a named shard
\* (remove_packages_from_manifest / remove_packages_from_single_shard):
\* the edited manifest is written, then applied as it is in memory
RemovePackages(target, pkg, force_brew, force_cask, dry_run) ==
    /\ pc = "idle"
    /\ \E write_ok \in BOOLEAN :
        LET path == resolve_manifest_path(target)
            file == active[path]
            manifest == IF Loads(file) THEN from_file(file) ELSE NewManifest
            refused == manifest.metadata.protected \/ is_protected(path)
            edited == remove_from_manifest(manifest, pkg, force_brew, force_cask)
            result ==
                IF ~valid_package_name(pkg) THEN "invalid_name"
                ELSE IF ~file.exists THEN "not_found"
                ELSE IF ~file.parses THEN "load_error"
                ELSE IF refused THEN "refused"
                ELSE IF edited = manifest THEN "nothing"
                ELSE IF dry_run THEN "dry_run"
                ELSE IF ~write_ok THEN "fs_error"
                ELSE "applying"
        IN  /\ result \notin {"fs_error", "applying"} => write_ok
            /\ ~write_ok => faults < MaxFaults
            /\ faults' = IF write_ok THEN faults ELSE faults + 1
            /\ lastCmd' = OpsCommand("remove", target, pkg, dry_run, force_brew,
                                     force_cask, result)
            /\ IF result = "applying"
               THEN /\ active' = [active EXCEPT ![path] = to_file(edited)]
                    /\ log' = log \o
                         << [Call("load", "from_file", "-", <<path>>, NoOptions)
                                EXCEPT !.res = "ok"],
                            [Call("save", "to_file", "-", <<path>>, NoOptions)
                                EXCEPT !.res = "ok"] >>
                    /\ loc' = [NoLoc EXCEPT !.mode = "remove", !.shard = path,
                                            !.manifest = edited]
                    /\ pc' = "remove_taps"
               ELSE /\ pc' = IF result \in {"invalid_name", "not_found",
                                            "load_error", "fs_error"}
                             THEN "failed" ELSE "done"
                    /\ loc' = [NoLoc EXCEPT !.mode = "remove", !.shard = path,
                                            !.dry_run = dry_run]
                    /\ UNCHANGED <<active, log>>
    /\ UNCHANGED <<inv, disabled, backups, user, classifyVars>>

\* apply_manifest_after_removal: its own tap loop, before apply_internal
RemoveTaps ==
    /\ pc = "remove_taps"
    /\ RunStage(process_taps(loc.manifest, FALSE, inv.taps), "taps")
    /\ UNCHANGED <<active, loc, classifyVars, lifeVars>>

OpsWorkFiles ==
    { NoFile, Unparsable,
      File(PlainMeta, <<>>, <<>>, <<>>, <<"git">>, <<>>),
      File(Meta(TRUE, <<"alice">>, 0), <<>>, <<>>, <<>>, <<"git">>, <<>>),
      File(PlainMeta, <<"t/one">>, <<>>, <<>>, <<"wget:1.2">>, <<"firefox">>) }

OpsSystemFiles == {NoFile, File(PlainMeta, <<>>, <<>>, <<>>, <<"git">>, <<>>)}

OpsUserFiles == {NoFile, File(PlainMeta, <<>>, <<>>, <<>>, <<"git">>, <<>>)}

OpsInventories ==
    { NoInventory,
      [NoInventory EXCEPT !.formulae = {"git"}],
      [NoInventory EXCEPT !.formulae = {"git"}, !.casks = {"firefox"}, !.taps = {"t/one"}] }

\* the names given on the command line; the last one fails validation
OpsPackages == {"git", "wget", "firefox", "nope", "wget:1.2"}

ForceFlags == {<<FALSE, FALSE>>, <<TRUE, FALSE>>, <<FALSE, TRUE>>}

InitOps ==
    /\ user \in Users
    /\ active \in { [system |-> fs, work |-> fw, alice_user |-> fu, bob_user |-> NoFile] :
                      fs \in OpsSystemFiles, fw \in OpsWorkFiles, fu \in OpsUserFiles }
    /\ disabled = [n \in OpsNames |-> NoFile]
    /\ backups = {}
    /\ lastCmd = NoCommand
    /\ inv \in OpsInventories
    /\ pc = "idle"
    /\ loc = NoLoc
    /\ log = <<>>
    /\ faults = 0
    /\ cin = [pkgs |-> <<>>, installed |-> {}]
    /\ cout = [none |-> TRUE]

OpsTargets == {"system", "work", "user"}

NextOps ==
    \/ \E target \in OpsTargets, pkg \in OpsPackages, f \in ForceFlags, dry_run \in BOOLEAN :
          AddPackages(target, pkg, f[1], f[2], dry_run)
    \/ \E target \in OpsTargets, pkg \in OpsPackages, f \in ForceFlags, dry_run \in BOOLEAN :
          RemovePackages(target, pkg, f[1], f[2], dry_run)
    \/ RemoveTaps
    \/ ApplyTaps
    \/ ApplyFormulas
    \/ ApplyCasks
    \/ Cleanup

SpecOps == InitOps /\ [][NextOps]_vars

----------------------------------------------------------------------------
(* Claims about the shard commands *)

\* a manifest the specification calls protected: the flag in its metadata,
\* or one of the hard-coded names
ProtectedManifest(name, f) ==
    name \in protected_shards \/ (Loads(f) /\ f.metadata.protected)

AllowedUser(f) == Loads(f) /\ Contains(f.metadata.allowed_users, user)

\* C5: disable and shatter move or remove the shard's file only after a
\* backup copy of the shard has been written in the same command, with
\* force and for a disabled shard as well; without the backup the files
\* are where they were.
C5_DestroyOnlyAfterBackup ==
    ( /\ lastCmd.op \in {"disable", "shatter"}
      /\ is_valid_shard_name(lastCmd.name)
      /\ ~lastCmd.wrote_backup )
        => /\ active[lastCmd.name] = lastCmd.was_active
           /\ disabled[lastCmd.name] = lastCmd.was_disabled

\* C6: add and remove aimed at a protected manifest by a user who is not
\* in its allowed users return a Protected error and change neither the
\* manifest file nor the installed packages.
C6_ProtectedAddRemoveFails ==
    [][ ( /\ lastCmd'.n = lastCmd.n + 1
          /\ lastCmd'.op \in {"add", "remove"}
          /\ valid_package_name(lastCmd'.pkg)
          /\ ProtectedManifest(resolve_manifest_path(lastCmd'.name), lastCmd'.was_active)
          /\ ~AllowedUser(lastCmd'.was_active) )
        => /\ lastCmd'.result = "protected"
           /\ pc' = "failed"
           /\ active' = active
           /\ inv' = inv
      ]_vars

\* C7: disable on a protected shard fails with a Protected error and
\* leaves the shard active when the acting user is not in its allowed
\* users, and ends with the shard disabled when the user is (the prompt
\* answered yes, the file system working).
C7_ProtectedDisable ==
    ( /\ lastCmd.op = "disable"
      /\ lastCmd.was_active.exists
      /\ ProtectedManifest(lastCmd.name, lastCmd.was_active)
      /\ lastCmd.answers.confirm /\ lastCmd.answers.fs_ok )
    => IF AllowedUser(lastCmd.was_active)
       THEN /\ lastCmd.result = "ok"
            /\ ~active[lastCmd.name].exists
            /\ disabled[lastCmd.name] = lastCmd.was_active
       ELSE /\ lastCmd.result = "protected"
            /\ active[lastCmd.name] = lastCmd.was_active

\* the manifest the last add or remove command loaded, before its edit
loaded_manifest ==
    IF lastCmd.was_active.exists THEN from_file(lastCmd.was_active) ELSE NewManifest

\* the manifests the last add or remove command may have handed to to_file
edited_manifests ==
    IF lastCmd.op = "add"
    THEN {add_to_manifest(loaded_manifest, lastCmd.pkg, t) : t \in {"brew", "cask"}}
    ELSE IF lastCmd.op = "remove"
    THEN {remove_from_manifest(loaded_manifest, lastCmd.pkg,
                               lastCmd.force_brew, lastCmd.force_cask)}
    ELSE {}

\* the manifest the last add or remove command has written
Written(m) ==
    /\ lastCmd.op \in {"add", "remove"} /\ lastCmd.result = "applying"
    /\ m \in edited_manifests
    /\ active[resolve_manifest_path(lastCmd.name)] = to_file(m)

\* C22: a manifest that is written and read back has the same declarations
\* (per kind the same names, each with the same state and the same
\* options), the same taps and the same metadata.
C22_RoundTrip ==
    \A m \in edited_manifests :
        Written(m) =>
            LET r == from_file(to_file(m))
            IN  /\ SameDeclarations(r.formulas, m.formulas)
                /\ SameDeclarations(r.casks, m.casks)
                /\ Range(Names(r.taps)) = Range(Names(m.taps))
                /\ r.metadata = m.metadata

\* C25: add and remove write the changed manifest only after every brew
\* operation of the command has succeeded: while the command's pass is
\* still running, and after an install or uninstall of it has failed, the
\* manifest file is what it was before the command.
C25_WriteAfterOperations ==
    lastCmd.op \in {"add", "remove"} =>
        LET path == resolve_manifest_path(lastCmd.name)
        IN  /\ active[path] # lastCmd.was_active => pc = "done"
            /\ (\E i \in 1..Len(log) : log[i].op \in PackageOps /\ log[i].res # "ok")
                  => active[path] = lastCmd.was_active

\* the step is a grow command on the given name
GrowStep(name) ==
    /\ lastCmd'.n = lastCmd.n + 1
    /\ lastCmd'.op = "grow" /\ lastCmd'.name = name

\* a shard of that name exists, active or disabled
ShardExists(name) ==
    name \in LifeNames /\ (active[name].exists \/ disabled[name].exists)

\* C27: grow fails, and creates or changes no file, when the name is
\* invalid (empty, or with a character other than alphanumerics, '_' and
\* '-') or when a shard of that name already exists.
C27_GrowFailsWithoutChange ==
    [][ \A name \in CommandNames :
          (GrowStep(name) /\ (~is_valid_shard_name(name) \/ ShardExists(name)))
            => /\ lastCmd'.result # "ok"
               /\ active' = active
               /\ disabled' = disabled
      ]_vars

\* no shard name has a file in the active and in the disabled directory
OneStatus(act, dis) == \A n \in LifeNames : ~(act[n].exists /\ dis[n].exists)

\* C28: grow, disable, enable and shatter keep every shard in one status:
\* from a state in which no name has both an active and a disabled file
\* they lead to such a state.
C28_OneStatusPerShard ==
    [][ OneStatus(active, disabled) => OneStatus(active', disabled') ]_vars

BackedUp(name, f) == [name |-> name, content |-> f] \in backups'

\* C29: enable does not replace an existing active manifest, and disable
\* does not replace an existing disabled manifest, of which no backup has
\* been written.
C29_NoReplaceWithoutBackup ==
    [][ \A name \in LifeNames :
          ( /\ lastCmd'.n = lastCmd.n + 1
            /\ lastCmd'.name = name /\ lastCmd'.result = "ok" ) =>
              /\ (lastCmd'.op = "enable" /\ active[name].exists
                    /\ active'[name] # active[name])
                   => BackedUp(name, active[name])
              /\ (lastCmd'.op = "disable" /\ disabled[name].exists
                    /\ disabled'[name] # disabled[name])
                   => BackedUp(name, disabled[name])
      ]_vars

----------------------------------------------------------------------------
(* Classification on its own: process_packages applied to every short     *)
(* declaration list and every inventory.                                   *)

ClassifyNames == {"git", "wget"}

ClassifyPkg == [name : ClassifyNames, state : PackageState, options : OptionLists]

NoResult == [none |-> TRUE]

InitClassify ==
    /\ cin \in [pkgs : SeqsUpTo(ClassifyPkg, MaxPkgs), installed : SUBSET ClassifyNames]
    /\ cout = NoResult
    /\ PassIdle

Classify ==
    /\ cout = NoResult
    /\ cout' = process_packages(cin.pkgs, cin.installed)
    /\ UNCHANGED <<cin, passVars, lifeVars>>

NextClassify == Classify

SpecClassify == InitClassify /\ [][NextClassify]_vars

----------------------------------------------------------------------------
(* Claims about classification *)

Classified == cout # NoResult

InNoBucket(n) ==
    /\ ~Contains(cout.to_install, n)
    /\ ~Contains(cout.to_upgrade, n)
    /\ ~Contains(Names(cout.with_options), n)
    /\ ~Contains(cout.to_uninstall, n)

\* declaration i is the only declaration of its name
OnlyDecl(i) == \A j \in 1..Len(cin.pkgs) : cin.pkgs[j].name = cin.pkgs[i].name => j = i

\* every declaration of the name of declaration i is Absent
AllAbsent(i) ==
    \A j \in 1..Len(cin.pkgs) :
        cin.pkgs[j].name = cin.pkgs[i].name => cin.pkgs[j].state = "absent"

\* C8: an Absent declaration of an installed package puts the name in
\* to_uninstall; an Absent declaration of a package that is not installed
\* produces no bucket entry; an Absent declaration never puts its name in
\* to_install or to_upgrade.
C8_AbsentClassified ==
    Classified =>
        \A i \in 1..Len(cin.pkgs) :
            LET d == cin.pkgs[i] IN
            d.state = "absent" =>
                /\ d.name \in cin.installed => Contains(cout.to_uninstall, d.name)
                /\ (d.name \notin cin.installed /\ AllAbsent(i)) => InNoBucket(d.name)
                /\ AllAbsent(i) =>
                      /\ ~Contains(cout.to_install, d.name)
                      /\ ~Contains(cout.to_upgrade, d.name)
                      /\ ~Contains(Names(cout.with_options), d.name)

\* Both cases of C8 in one run: an installed and a not installed Absent
\* declaration, classified.
C8_Witness ==
    /\ Classified
    /\ Len(cin.pkgs) = 2
    /\ cin.pkgs[1] = [name |-> "git", state |-> "absent", options |-> NoOptions]
    /\ cin.pkgs[2] = [name |-> "wget", state |-> "absent", options |-> <<"--HEAD">>]
    /\ cin.installed = {"git"}
    /\ cout.to_uninstall = <<"git">>

\* C9 as stated: every Present or Latest declaration with options is in
\* with_options, installed or not, and never in to_install or to_upgrade.
C9_OptionsAlwaysWithOptions ==
    Classified =>
        \A i \in 1..Len(cin.pkgs) :
            LET d == cin.pkgs[i] IN
            (d.state # "absent" /\ d.options # NoOptions) =>
                /\ Contains(Names(cout.with_options), d.name)
                /\ OnlyDecl(i) =>
                      /\ ~Contains(cout.to_install, d.name)
                      /\ ~Contains(cout.to_upgrade, d.name)

\* C9 amended: a declaration with options is in with_options when it is
\* Latest, or Present and not installed; a Present declaration with options
\* of an installed package is in no bucket; a declaration with options is
\* never in to_install or to_upgrade.
C9_OptionsClassified ==
    Classified =>
        \A i \in 1..Len(cin.pkgs) :
            LET d == cin.pkgs[i] IN
            (d.state # "absent" /\ d.options # NoOptions) =>
                /\ (d.state = "latest" \/ d.name \notin cin.installed)
                      => Contains(Names(cout.with_options), d.name)
                /\ OnlyDecl(i) =>
                      /\ ~Contains(cout.to_install, d.name)
                      /\ ~Contains(cout.to_upgrade, d.name)
                      /\ (d.state = "present" /\ d.name \in cin.installed)
                            => InNoBucket(d.name)

C9_Witness ==
    /\ Classified
    /\ Len(cin.pkgs) = 2
    /\ cin.pkgs[1] = [name |-> "git", state |-> "latest", options |-> <<"--HEAD">>]
    /\ cin.pkgs[2] = [name |-> "wget", state |-> "present", options |-> <<"--HEAD">>]
    /\ cin.installed = {"git"}
    /\ Names(cout.with_options) = <<"git", "wget">>

\* C10: a Present or Latest declaration without options is in to_install
\* iff the package is not installed, in to_upgrade iff it is installed and
\* Latest, and in no bucket when it is installed and Present.
C10_PlainClassified ==
    Classified =>
        \A i \in 1..Len(cin.pkgs) :
            LET d == cin.pkgs[i] IN
            (d.state # "absent" /\ d.options = NoOptions /\ OnlyDecl(i)) =>
                /\ Contains(cout.to_install, d.name) <=> d.name \notin cin.installed
                /\ Contains(cout.to_upgrade, d.name)
                      <=> (d.name \in cin.installed /\ d.state = "latest")
                /\ (d.name \in cin.installed /\ d.state = "present")
                      => InNoBucket(d.name)

C10_Witness ==
    /\ Classified
    /\ Len(cin.pkgs) = 2
    /\ cin.pkgs[1] = [name |-> "git", state |-> "latest", options |-> NoOptions]
    /\ cin.pkgs[2] = [name |-> "wget", state |-> "latest", options |-> NoOptions]
    /\ cin.installed = {"git"}
    /\ cout.to_upgrade = <<"git">>
    /\ cout.to_install = <<"wget">>

----------------------------------------------------------------------------
(* The merge on its own: three manifests' declarations of one kind, merged  *)
(* at once and merged in two steps, each result classified against the      *)
(* same installed list.                                                     *)

\* the declarations of the third manifest: one name, to meet the others'
MergeTail == {d \in ClassifyPkg : d.name = "git"}

InitMerge ==
    /\ cin \in [ a : SeqsUpTo(ClassifyPkg, MaxPkgs),
                  b : SeqsUpTo(ClassifyPkg, 1),
                  c : SeqsUpTo(MergeTail, 1),
                  installed : SUBSET ClassifyNames ]
    /\ cout = NoResult
    /\ PassIdle

Merge ==
    /\ cout = NoResult
    /\ cout' = [ direct |-> process_packages(merge(<<cin.a, cin.b, cin.c>>),
                                             cin.installed),
                 nested |-> process_packages(
                                merge(<<merge(<<cin.a, cin.b>>), cin.c>>),
                                cin.installed),
                 merged |-> merge(<<cin.a, cin.b, cin.c>>) ]
    /\ UNCHANGED <<cin, passVars, lifeVars>>

NextMerge == Merge

SpecMerge == InitMerge /\ [][NextMerge]_vars

\* C16: merging the merge of a and b with c gives, for every installed
\* list, the same four buckets as merging a, b and c at once.
C16_MergeAssociative ==
    cout # NoResult => cout.nested = cout.direct

C16_Witness ==
    /\ cout # NoResult
    /\ cin.a = <<[name |-> "git", state |-> "present", options |-> NoOptions],
                 [name |-> "wget", state |-> "present", options |-> NoOptions]>>
    /\ cin.b = <<[name |-> "git", state |-> "present", options |-> <<"--HEAD">>]>>
    /\ cin.c = <<[name |-> "git", state |-> "latest", options |-> NoOptions]>>
    /\ cin.installed = {"git"}
    /\ cout.merged = <<[name |-> "git", state |-> "latest", options |-> NoOptions],
                       [name |-> "wget", state |-> "present", options |-> NoOptions]>>
    /\ cout.direct.to_upgrade = <<"git">>
    /\ cout.direct.to_install = <<"wget">>
    /\ cout.nested = cout.direct

----------------------------------------------------------------------------
(* brew/validate.rs: the allow-list patterns.  A string is a sequence of    *)
(* one-character strings; a character class is the set of its members that  *)
(* the inputs below are written with.                                       *)

\* [a-zA-Z0-9]
Alnum == {"a", "Z", "7"}

\* [a-zA-Z0-9_\-\.+@], the characters after the first of a package name
PackageChars == Alnum \cup {"_", "-", ".", "+", "@"}

\* [a-zA-Z0-9_\-], the characters of either half of a tap name and of the
\* name of an option
WordChars == Alnum \cup {"_", "-"}

\* [a-zA-Z0-9_\-\.+/], the characters of the value of an option
ValueChars == Alnum \cup {"_", "-", ".", "+", "/"}

AllIn(s, S) == \A i \in 1..Len(s) : s[i] \in S

\* the part of s before position k, and the part after it
Before(s, k) == SubSeq(s, 1, k - 1)

After(s, k) == SubSeq(s, k + 1, Len(s))

\* ^[a-zA-Z0-9][a-zA-Z0-9_\-\.+@]*$
PACKAGE_NAME_REGEX(s) ==
    /\ Len(s) >= 1
    /\ s[1] \in Alnum
    /\ AllIn(Tail(s), PackageChars)

\* ^[a-zA-Z0-9_\-]+/[a-zA-Z0-9_\-]+$
TAP_NAME_REGEX(s) ==
    \E k \in 1..Len(s) :
        /\ s[k] = "/"
        /\ Before(s, k) # <<>> /\ AllIn(Before(s, k), WordChars)
        /\ After(s, k) # <<>> /\ AllIn(After(s, k), WordChars)

\* ^--?[a-zA-Z0-9_\-]+(=[a-zA-Z0-9_\-\.+/]+)?$ : the second dash is a word
\* character as well, so the pattern is a dash, a word, and possibly an
\* equals sign and a value
OPTION_REGEX(s) ==
    /\ Len(s) >= 1
    /\ s[1] = "-"
    /\ LET rest == Tail(s)
       IN  \/ rest # <<>> /\ AllIn(rest, WordChars)
           \/ \E k \in 1..Len(rest) :
                 /\ rest[k] = "="
                 /\ Before(rest, k) # <<>> /\ AllIn(Before(rest, k), WordChars)
                 /\ After(rest, k) # <<>> /\ AllIn(After(rest, k), ValueChars)

validate_package_name(name) == name # <<>> /\ PACKAGE_NAME_REGEX(name)

validate_tap_name(name) == name # <<>> /\ TAP_NAME_REGEX(name)

validate_option(option) == option # <<>> /\ OPTION_REGEX(option)

validate_options(options) == \A i \in 1..Len(options) : validate_option(options[i])

----------------------------------------------------------------------------
(* brew/client.rs: BrewClient, and the functions of package/processor.rs    *)
(* and package/operations.rs that start brew themselves                     *)

\* what the brew process does once it is asked for: it cannot be started,
\* or it exits with status zero or non-zero, soon or only after longer than
\* any timeout the client has
Processes ==
    {"spawn_fails", "exit_zero", "exit_nonzero", "slow_exit_zero", "slow_exit_nonzero"}

Succeeds(proc) == proc \in {"exit_zero", "slow_exit_zero"}

Slow(proc) == proc \in {"slow_exit_zero", "slow_exit_nonzero"}

\* a Result: Ok or the kind of the Err, whether a process was started with
\* the arguments, and for Ok(output) whether output.status.success()
Returned(ok, err, spawned, success) ==
    [ok |-> ok, err |-> err, spawned |-> spawned, success |-> success]

ValidationError == Returned(FALSE, "validation", FALSE, FALSE)

\* Command::output
output(proc) ==
    IF proc = "spawn_fails" THEN Returned(FALSE, "spawn", FALSE, FALSE)
    ELSE Returned(TRUE, "", TRUE, Succeeds(proc))

\* the status test both execute functions make on an output they hold
bail_unless_success(o) ==
    IF o.ok /\ ~o.success THEN Returned(FALSE, "exit", o.spawned, FALSE) ELSE o

\* execute_with_timeout: Ok(output) for a process that finished, whatever
\* its status
execute_with_timeout(proc) ==
    IF proc = "spawn_fails" THEN Returned(FALSE, "spawn", FALSE, FALSE)
    ELSE IF Slow(proc) THEN Returned(FALSE, "timeout", TRUE, FALSE)
    ELSE Returned(TRUE, "", TRUE, Succeeds(proc))

\* execute_brew_command: with a timeout the result of execute_with_timeout
\* is returned as it is
execute_brew_command(timeout, proc) ==
    IF timeout THEN execute_with_timeout(proc)
    ELSE bail_unless_success(output(proc))

\* execute_brew_command_with_args
execute_brew_command_with_args(timeout, extra_args, proc) ==
    IF ~validate_options(extra_args) THEN ValidationError
    ELSE bail_unless_success(
            IF timeout THEN execute_with_timeout(proc) ELSE output(proc))

TapMethods == {"add_tap"}

OptionMethods ==
    { "install_formula", "install_cask",
      "upgrade_formula_with_options", "upgrade_cask_with_options" }

NameMethods == {"uninstall_formula", "uninstall_cask"}

BatchMethods ==
    { "batch_install_formulae", "batch_install_casks",
      "batch_upgrade_formulae", "batch_upgrade_casks" }

PlainMethods ==
    { "get_installed_formulae", "get_installed_casks", "get_installed_taps",
      "get_dependency_packages", "cleanup" }

ClientMethods ==
    TapMethods \cup OptionMethods \cup NameMethods \cup BatchMethods \cup PlainMethods

\* package/processor.rs
OutdatedMethods == {"is_formula_outdated", "is_cask_outdated"}

\* package/operations.rs
AvailabilityMethods == {"check_package_availability"}

\* one call of a BrewClient method: the validation of its name, then the
\* command
BrewClient(c) ==
    IF c.method \in TapMethods
    THEN IF ~validate_tap_name(c.names[1]) THEN ValidationError
         ELSE execute_brew_command(c.timeout, c.proc)
    ELSE IF c.method \in OptionMethods
    THEN IF ~validate_package_name(c.names[1]) THEN ValidationError
         ELSE execute_brew_command_with_args(c.timeout, c.options, c.proc)
    ELSE IF c.method \in NameMethods
    THEN IF ~validate_package_name(c.names[1]) THEN ValidationError
         ELSE execute_brew_command(c.timeout, c.proc)
    ELSE IF c.method \in BatchMethods
    THEN IF c.names = <<>> THEN Returned(TRUE, "", FALSE, TRUE)
         ELSE IF \E i \in 1..Len(c.names) : ~validate_package_name(c.names[i])
         THEN ValidationError
         ELSE execute_brew_command(c.timeout, c.proc)
    ELSE execute_brew_command(c.timeout, c.proc)

\* is_formula_outdated / is_cask_outdated: brew is started with the name as
\* it is given, and its status is not looked at
is_outdated(name, proc) ==
    IF proc = "spawn_fails" THEN Returned(FALSE, "spawn", FALSE, FALSE)
    ELSE Returned(TRUE, "", TRUE, Succeeds(proc))

\* check_package_availability: a non-zero status means "not available"
check_package_availability(name, proc) ==
    IF ~validate_package_name(name) THEN ValidationError
    ELSE IF proc = "spawn_fails" THEN Returned(FALSE, "spawn", FALSE, FALSE)
    ELSE Returned(TRUE, "", TRUE, Succeeds(proc))

----------------------------------------------------------------------------
(* The brew calls on their own: one call of one function with a name, a     *)
(* list of options and a brew process drawn from the sets below.            *)

\* the names handed over: the empty string, package names and tap names
\* the patterns accept, and strings with a character they reject or in a
\* place where they reject it
NameStrings ==
    { <<>>, <<"a">>, <<"a", "-">>, <<"a", "@", "7">>, <<"Z", ".", "+">>,
      <<"-", "a">>, <<"@">>, <<";">>, <<"a", ";">>, <<"a", "=">>,
      <<"a", "/", "a">>, <<"a", "-", "/", "_", "7">>, <<"a", "/">>,
      <<"/", "a">>, <<"a", "/", ";">>, <<"a", "/", "a", "/", "a">>,
      <<"a", ".", "/", "a">> }

\* -a, --, -a=a, and strings the option pattern rejects
OptionStrings ==
    { <<"-", "a">>, <<"-", "-">>, <<"-", "a", "=", "a">>,
      <<"-">>, <<"a">>, <<"-", "a", "=", ";">>, <<>> }

\* a second name of a batch
ExtraNames == {<<"a">>, <<";">>}

Invocation(method, timeout, names, options, proc) ==
    [ method |-> method, timeout |-> timeout, names |-> names,
      options |-> options, proc |-> proc ]

ClientInputs ==
    { Invocation(m, t, <<n>>, <<>>, p) :
        m \in TapMethods \cup NameMethods \cup OutdatedMethods \cup AvailabilityMethods,
        t \in BOOLEAN, n \in NameStrings, p \in Processes }
    \cup
    { Invocation(m, t, <<n>>, o, p) :
        m \in OptionMethods, t \in BOOLEAN, n \in NameStrings,
        o \in SeqsUpTo(OptionStrings, 1), p \in Processes }
    \cup
    { Invocation(m, t, ns, <<>>, p) :
        m \in BatchMethods, t \in BOOLEAN,
        ns \in {<<>>} \cup {<<n>> : n \in NameStrings}
                \cup {<<n, x>> : n \in NameStrings, x \in ExtraNames},
        p \in Processes }
    \cup
    { Invocation(m, t, <<>>, <<>>, p) :
        m \in PlainMethods, t \in BOOLEAN, p \in Processes }

InitClient ==
    /\ cin \in ClientInputs
    /\ cout = NoResult
    /\ PassIdle

Invoke ==
    /\ cout = NoResult
    /\ cout' = IF cin.method \in ClientMethods THEN BrewClient(cin)
               ELSE IF cin.method \in OutdatedMethods
               THEN is_outdated(cin.names[1], cin.proc)
               ELSE check_package_availability(cin.names[1], cin.proc)
    /\ UNCHANGED <<cin, passVars, lifeVars>>

NextClient == Invoke

SpecClient == InitClient /\ [][NextClient]_vars

\* every name, tap name and option of the call matches its pattern
InputsValid ==
    /\ \A i \in 1..Len(cin.names) :
          IF cin.method \in TapMethods THEN validate_tap_name(cin.names[i])
          ELSE validate_package_name(cin.names[i])
    /\ validate_options(cin.options)

\* C26: a brew process is started with a package name, a tap name or an
\* option only if each of them has passed its allow-list validation; a call
\* with an input that fails validation returns an error and starts no
\* process.
C26_ValidatedBeforeStarted ==
    cout # NoResult =>
        /\ cout.spawned => InputsValid
        /\ ~InputsValid => ~cout.ok

\* C30: a brew command of the client that exits with a non-zero status is
\* returned to the caller as an error, with a timeout set on the client and
\* without one.
C30_NonZeroExitIsError ==
    ( /\ cout # NoResult
      /\ cin.method \in ClientMethods
      /\ cout.spawned
      /\ cin.proc = "exit_nonzero" )
    => ~cout.ok

====
